---------------------------- MODULE Spec2Model ----------------------------
(***************************************************************************)
(* A model of web_scraper/scrape.py: the recursive link discovery of       *)
(* websync (ls / find_download_links), the per-link copy decision and the  *)
(* transfer (cp / sync_files), and the sync pass of scraper.scrape.        *)
(*                                                                         *)
(* Strings (hrefs, URLs, path segments, regular expressions) are           *)
(* sequences of one-character strings, so that startswith, endswith,       *)
(* strip, split, replace, urljoin, urlsplit and re.match are computed on   *)
(* the characters as the code computes them.                               *)
(***************************************************************************)
EXTENDS Integers, Sequences, FiniteSets, TLC

\* ------------------------------------------------------------------ str
\* str.startswith
StartsWith(s, p) == Len(s) >= Len(p) /\ SubSeq(s, 1, Len(p)) = p

\* str.endswith
EndsWith(s, p) == Len(s) >= Len(p) /\ SubSeq(s, Len(s) - Len(p) + 1, Len(s)) = p

RECURSIVE LStrip(_)
LStrip(s) == IF s /= <<>> /\ Head(s) = " " THEN LStrip(Tail(s)) ELSE s

RECURSIVE RStrip(_)
RStrip(s) ==
    IF s /= <<>> /\ s[Len(s)] = " " THEN RStrip(SubSeq(s, 1, Len(s) - 1)) ELSE s

\* str.strip
Strip(s) == RStrip(LStrip(s))

\* The index of the first character of s that is in cs, or Len(s) + 1.
RECURSIVE FirstOf(_, _, _)
FirstOf(s, cs, i) ==
    IF i > Len(s) THEN Len(s) + 1
    ELSE IF s[i] \in cs THEN i
    ELSE FirstOf(s, cs, i + 1)

\* str.split(c): the pieces between the occurrences of c (at least one piece).
RECURSIVE Split(_, _)
Split(s, c) ==
    LET i == FirstOf(s, {c}, 1)
    IN  IF i > Len(s) THEN <<s>>
        ELSE <<SubSeq(s, 1, i - 1)>> \o Split(SubSeq(s, i + 1, Len(s)), c)

\* c.join(parts)
RECURSIVE Join(_, _)
Join(parts, c) ==
    IF parts = <<>> THEN <<>>
    ELSE IF Len(parts) = 1 THEN parts[1]
    ELSE parts[1] \o <<c>> \o Join(Tail(parts), c)

\* str.replace(old, new) with a non-empty old: every occurrence, left to right.
RECURSIVE Replace(_, _, _)
Replace(s, old, new) ==
    IF s = <<>> THEN <<>>
    ELSE IF StartsWith(s, old) THEN new \o Replace(SubSeq(s, Len(old) + 1, Len(s)), old, new)
    ELSE <<Head(s)>> \o Replace(Tail(s), old, new)

\* ------------------------------------------------------------------ re
\* Python's None among strings: a sequence no string is (its one element is
\* not a character).
None == <<"None">>

\* A regular expression is written as a string.  Its compiled form is the
\* tag "re" followed by the pattern's tokens: a character matches itself and
\* the token ".*" matches any run of characters; the parentheses of a group
\* change nothing of what matches.
DotStar == ".*"

RECURSIVE ReTokens(_)
ReTokens(src) ==
    IF src = <<>> THEN <<>>
    ELSE IF StartsWith(src, <<".", "*">>)
         THEN <<DotStar>> \o ReTokens(SubSeq(src, 3, Len(src)))
    ELSE IF Head(src) \in {"(", ")"} THEN ReTokens(Tail(src))
    ELSE <<Head(src)>> \o ReTokens(Tail(src))

\* re.compile: a compiled pattern is returned as it is.
ReCompile(value) ==
    IF value /= <<>> /\ Head(value) = "re" THEN value ELSE <<"re">> \o ReTokens(value)

RECURSIVE MatchTokens(_, _)
MatchTokens(p, s) ==
    IF p = <<>> THEN TRUE
    ELSE IF Head(p) = DotStar
         THEN \E k \in 0..Len(s) : MatchTokens(Tail(p), SubSeq(s, k + 1, Len(s)))
    ELSE s /= <<>> /\ Head(s) = Head(p) /\ MatchTokens(Tail(p), Tail(s))

\* pattern.match(s): the pattern is anchored at position 0 of s, and s may go
\* on after the match.
ReMatch(pattern, s) == MatchTokens(Tail(pattern), s)

\* ------------------------------------------------------------------ urllib
SchemeChars == {"a", "b", "c", "d", "e", "f", "g", "h", "i", "j", "k", "l", "m",
                "n", "o", "p", "q", "r", "s", "t", "u", "v", "w", "x", "y", "z"}

\* urlsplit: scheme, netloc, path and what follows the path (query, fragment).
\* The place of the colon that ends a scheme, or 0.
SchemeEnd(url) ==
    LET colon == FirstOf(url, {":"}, 1)
    IN  IF /\ colon > 1
           /\ colon <= Len(url)
           /\ \A i \in 1..(colon - 1) : url[i] \in SchemeChars
        THEN colon ELSE 0

SplitPath(scheme, netloc, rest) ==
    LET pathEnd == FirstOf(rest, {"?", "#"}, 1)
    IN  [scheme |-> scheme,
         netloc |-> netloc,
         path   |-> SubSeq(rest, 1, pathEnd - 1),
         tail   |-> SubSeq(rest, pathEnd, Len(rest))]

SplitNetloc(scheme, after) ==
    LET netEnd == FirstOf(after, {"/", "?", "#"}, 1)
    IN  SplitPath(scheme, SubSeq(after, 1, netEnd - 1), SubSeq(after, netEnd, Len(after)))

SplitRest(scheme, rest) ==
    IF StartsWith(rest, <<"/", "/">>)
    THEN SplitNetloc(scheme, SubSeq(rest, 3, Len(rest)))
    ELSE SplitPath(scheme, <<>>, rest)

UrlSplit(url) ==
    LET colon == SchemeEnd(url)
    IN  IF colon > 0
        THEN SplitRest(SubSeq(url, 1, colon - 1), SubSeq(url, colon + 1, Len(url)))
        ELSE SplitRest(<<>>, url)

\* urljoin's removal of the dot segments (RFC 3986, 5.2.4).
RECURSIVE ResolveSegments(_, _)
ResolveSegments(segments, resolved) ==
    IF segments = <<>> THEN resolved
    ELSE LET seg == Head(segments)
         IN  IF seg = <<".", ".">>
             THEN ResolveSegments(Tail(segments),
                     IF resolved = <<>> THEN <<>>
                     ELSE SubSeq(resolved, 1, Len(resolved) - 1))
             ELSE IF seg = <<".">>
             THEN ResolveSegments(Tail(segments), resolved)
             ELSE ResolveSegments(Tail(segments), Append(resolved, seg))

\* segments[1:-1] = filter(None, segments[1:-1])
DropInnerEmpty(segments) ==
    IF Len(segments) < 3 THEN segments
    ELSE <<segments[1]>>
         \o SelectSeq(SubSeq(segments, 2, Len(segments) - 1), LAMBDA g : g /= <<>>)
         \o <<segments[Len(segments)]>>

\* The directory of the base's path: its last piece is dropped unless empty.
BaseParts(bpath) ==
    LET parts == Split(bpath, "/")
    IN  IF parts[Len(parts)] /= <<>> THEN SubSeq(parts, 1, Len(parts) - 1) ELSE parts

MergedSegments(bpath, path) ==
    IF StartsWith(path, <<"/">>) THEN Split(path, "/")
    ELSE DropInnerEmpty(BaseParts(bpath) \o Split(path, "/"))

ResolvedPath(segments) ==
    LET resolved == ResolveSegments(segments, <<>>)
    IN  IF segments[Len(segments)] \in {<<".">>, <<".", ".">>}
        THEN Append(resolved, <<>>) ELSE resolved

\* '/'.join(resolved_path) or '/', and urlunsplit: a path after a host starts
\* with a slash.
JoinedPath(resolved) ==
    LET joined == Join(resolved, "/")
    IN  IF joined = <<>> THEN <<"/">>
        ELSE IF StartsWith(joined, <<"/">>) THEN joined
        ELSE <<"/">> \o joined

UrlUnsplit(scheme, netloc, path, tail) ==
    scheme \o <<":", "/", "/">> \o netloc \o path \o tail

UrlJoinSplit(base, url, b, u) ==
    IF url = <<>> THEN base
    ELSE IF u.scheme /= <<>> /\ u.scheme /= b.scheme THEN url
    ELSE IF u.path = <<>> THEN UrlUnsplit(b.scheme, b.netloc, b.path, u.tail)
    ELSE UrlUnsplit(b.scheme, b.netloc,
                    JoinedPath(ResolvedPath(MergedSegments(b.path, u.path))), u.tail)

\* urljoin(base, url) for an http base and a reference that names no host:
\* a reference with a scheme of its own is returned as it is, an empty one
\* gives the base, and a relative path is merged with the base's directory.
UrlJoin(base, url) == UrlJoinSplit(base, url, UrlSplit(base), UrlSplit(url))

\* ------------------------------------------------------------------ bounds
\* The anchors of the base listing page are drawn from RootAttrs, at most
\* MaxAnchors of them.
MaxAnchors == 3

\* Last-Modified headers and local modification times name the days
\* 0..MaxDay, at second 0 or 1 of the day.
MaxDay == 1

\* The anchors of the root page of a mirrored site are at most this many.
MaxLinks == 2

\* The links of a long listing that are more than the pool's workers are at
\* most this many.
MaxQueued == 1

\* The calls of ls() that are nested in one another are at most this many:
\* the code sets no limit, and a deeper call is left out of the model.
MaxDepth == 5

\* ThreadPoolExecutor(max_workers=10)
MaxWorkers == 10

\* ThreadPoolExecutor(max_workers=25)
MaxSiteWorkers == 25

\* ------------------------------------------------------------------ state
VARIABLES
    remote,     \* what the server answers: URL -> resource (any other URL: 404)
    stack,      \* the websync parsers whose ls() is running, innermost last
    lsState,    \* "idle", "running", "done": the outermost ls() call
    fetched,    \* the listing GETs issued so far, in order: [url, via]
    fs,         \* the local filesystem: [files: path -> [content, mtime], dirs]
    fsStart,    \* the local filesystem as it was when the pass (the call) began
    now,        \* the local clock, which stamps a file that is written
    tasks,      \* the calls of cp (and of sync_files): id -> call record
    kwargs,     \* the configuration block the parser is made from
    pass,       \* scraper.scrape: which call it is, where it stands, what it did
    cli         \* main: its arguments, its configuration, the site jobs it launched

lsVars == <<stack, lsState, fetched>>
cpVars == <<fs, fsStart, now, tasks, kwargs>>
vars == <<remote, stack, lsState, fetched, fs, fsStart, now, tasks, kwargs, pass, cli>>

\* ------------------------------------------------------------------ remote
\* A resource: what a request to its URL meets.  error is "none", or
\* "connection" (requests.exceptions.ConnectionError or Timeout, after the
\* session's retries), or "decode" (ContentDecodingError).  text is a listing
\* page, given as the (name, value) attributes of its <a> tags in document
\* order; every attribute carries a value.  last_modified is the header's
\* value <<day, second>>, or <<>> when the response has no such header.
Page(attrs) ==
    [error |-> "none", status |-> 200, text |-> attrs, content |-> "",
     last_modified |-> <<>>]

\* An error page has a body too, with a link in it.
Status(code) ==
    [error |-> "none", status |-> code, text |-> << <<"href", <<"f", "9">>>> >>,
     content |-> "", last_modified |-> <<>>]

Failing(kind) ==
    [error |-> kind, status |-> 0, text |-> <<>>, content |-> "",
     last_modified |-> <<>>]

Resource(url) == IF url \in DOMAIN remote THEN remote[url] ELSE Status(404)

Href(value) == <<"href", value>>

BaseUrl == <<"h", "t", "t", "p", ":", "/", "/", "a", ".", "b", "/">>

\* The anchors a base page is made of: two files, a subdirectory and a
\* subdirectory whose listing answers 404.
RootAttrs ==
    { Href(<<"f", "1">>), Href(<<"g", "2">>), Href(<<"s", "/">>), Href(<<"e", "/">>) }

\* The page of s/: a title attribute, files, a nested directory, a sort link,
\* a directory that cannot be reached, a site-absolute link, a link to another
\* host and an href written with blanks around it.
SubPage ==
    << <<"title", <<"t", "1">>>>,
       Href(<<"f", "2">>),
       Href(<<"t", "/">>),
       Href(<<"?", "c">>),
       Href(<<"c", "/">>),
       Href(<<"g", "1">>),
       Href(<<"/", "x">>),
       Href(<<"h", "t", "t", "p", ":", "/", "/", "z", "/", "y">>),
       Href(<<" ", "g", "3", " ">>) >>

\* The page of s/t/: a file and an index page, which is followed as a
\* directory is.
SubSubPage == << Href(<<"f", "3">>), Href(<<"p", ".", "h", "t", "m", "l">>) >>

\* The page s/t/p.html: its references are relative to s/t/.
HtmlPage == << Href(<<".", "/", "f", "1">>), Href(<<"g", "4">>) >>

SeqsUpTo(S, n) == UNION { [1..k -> S] : k \in 0..n }

ListingSite(root) ==
    LET s == UrlJoin(BaseUrl, <<"s", "/">>)
        t == UrlJoin(s, <<"t", "/">>)
    IN  (BaseUrl :> root)
        @@ (s :> Page(SubPage))
        @@ (t :> Page(SubSubPage))
        @@ (UrlJoin(t, <<"p", ".", "h", "t", "m", "l">>) :> Page(HtmlPage))
        @@ (UrlJoin(BaseUrl, <<"e", "/">>) :> Status(404))
        @@ (UrlJoin(s, <<"c", "/">>) :> Failing("connection"))

\* The patterns a site is configured with.
Excludes == { None, <<"f">>, <<"(", ".", "*", "1", ".", "*", ")">>, <<"t">> }
Includes == { None, <<".", "*", "1">>, <<"g">> }

\* ------------------------------------------------------------------ websync
\* websync.__init__: the attributes the constructor sets.  update_existing is
\* a parameter of the constructor and is not stored.
WebsyncInit(url, download_location, regex_exclude, regex_include, recursive, no_parents, update_existing) ==
    [return_links      |-> <<>>,
     base_url          |-> url,
     download_location |-> download_location,
     exclude_match     |-> IF regex_exclude /= None THEN ReCompile(regex_exclude) ELSE None,
     include_match     |-> IF regex_include /= None THEN ReCompile(regex_include) ELSE None,
     recursive         |-> recursive,
     no_parents        |-> no_parents]

DefaultLocation == <<".", "/">>

\* A call of parser.ls(recursive = arg) that is about to start; via is the
\* raw href the parser was made for (None for the outermost one).
LsCall(parser, arg, via) ==
    [self |-> parser, arg |-> arg, via |-> via, pc |-> "ls", text |-> <<>>, pos |-> 1]

Top == stack[Len(stack)]

SetTop(frame) == [stack EXCEPT ![Len(stack)] = frame]

\* Lines 165-170: the GET raised neither ConnectionError nor Timeout, and
\* answered 200.
ListingOkAnyStatus(res) == res.error = "none"

ListingOk(res) == res.error = "none" /\ res.status = 200

\* ls, lines 160-171: one GET of base_url; the page is fed to the parser on
\* a 200, and the call returns with no link on anything else.
LsGet ==
    /\ lsState = "running"
    /\ Top.pc = "ls"
    /\ LET res == Resource(Top.self.base_url)
           me  == [Top.self EXCEPT !.recursive = Top.arg]
       IN  /\ fetched' = Append(fetched, [url |-> Top.self.base_url, via |-> Top.via])
           /\ stack' = SetTop(
                 IF ListingOk(res)
                 THEN [Top EXCEPT !.self = me, !.pc = "feed", !.text = res.text, !.pos = 1]
                 ELSE [Top EXCEPT !.self = me, !.pc = "return"])
    /\ UNCHANGED <<remote, cli, pass, lsState, cpVars>>

\* The tests of find_download_links on one attribute.
IsDirectoryBelow(attr) ==
    /\ EndsWith(attr[2], <<"/">>) \/ EndsWith(attr[2], <<"h", "t", "m", "l">>)
    /\ ~StartsWith(attr[2], <<".">>)

IsDirectory(attr) ==
    EndsWith(attr[2], <<"/">>) \/ EndsWith(attr[2], <<"h", "t", "m", "l">>)

ExcludedLeavesOnly(self, attr) ==
    /\ self.exclude_match /= None
    /\ ReMatch(self.exclude_match, attr[2])
    /\ ~IsDirectory(attr)

Excluded(self, attr) ==
    self.exclude_match /= None /\ ReMatch(self.exclude_match, attr[2])

ConsideredWithQuery(attr) ==
    /\ attr[1] = "href"
    /\ ~ ( \/ StartsWith(attr[2], <<"/">>)
           \/ StartsWith(attr[2], <<"h", "t", "t", "p">>) )

Considered(attr) ==
    /\ attr[1] = "href"
    /\ ~ ( \/ StartsWith(attr[2], <<"/">>)
           \/ StartsWith(attr[2], <<"?">>)
           \/ StartsWith(attr[2], <<"h", "t", "t", "p">>) )

IncludedAnywhere(self, attr) ==
    self.include_match = None
        \/ \E k \in 0..Len(attr[2]) :
              ReMatch(self.include_match, SubSeq(attr[2], k + 1, Len(attr[2])))

Included(self, attr) ==
    self.include_match = None \/ ReMatch(self.include_match, attr[2])

\* What the parent does with the links of a subdirectory (line 153), and with
\* a leaf link (lines 157-158).
AddSubLinksFirst(return_links, sub_links) == sub_links \o return_links

AddSubLinks(return_links, sub_links) == return_links \o sub_links

AddLink(return_links, link) == Append(return_links, link)

\* find_download_links, lines 136-158: one turn of the loop over the
\* attributes of the page's <a> tags.
FindDownloadLinks ==
    /\ lsState = "running"
    /\ Top.pc = "feed"
    /\ Top.pos <= Len(Top.text)
    /\ LET attr == Top.text[Top.pos]
           self == Top.self
           next == [Top EXCEPT !.pos = @ + 1]
       IN  IF Excluded(self, attr) THEN stack' = SetTop(next)
           ELSE IF ~Considered(attr) THEN stack' = SetTop(next)
           ELSE IF IsDirectory(attr)
           THEN IF self.recursive
                THEN LET sub_url == UrlJoin(self.base_url, Strip(attr[2]))
                         parser  == WebsyncInit(sub_url, DefaultLocation,
                                                self.exclude_match, self.include_match,
                                                TRUE, FALSE, TRUE)
                     IN  /\ Len(stack) < MaxDepth
                         /\ stack' = Append(stack, LsCall(parser, TRUE, attr[2]))
                ELSE stack' = SetTop(next)
           ELSE IF Included(self, attr)
           THEN stack' = SetTop([next EXCEPT !.self.return_links =
                                   AddLink(@, UrlJoin(self.base_url, Strip(attr[2])))])
           ELSE stack' = SetTop(next)
    /\ UNCHANGED <<remote, cli, pass, lsState, fetched, cpVars>>

\* feed() has gone through the page: ls returns.
FeedDone ==
    /\ lsState = "running"
    /\ Top.pc = "feed"
    /\ Top.pos > Len(Top.text)
    /\ stack' = SetTop([Top EXCEPT !.pc = "return"])
    /\ UNCHANGED <<remote, cli, pass, lsState, fetched, cpVars>>

\* Lines 152-153: the subdirectory's ls has returned, and its links are added
\* to the parent's.
LsReturn ==
    /\ lsState = "running"
    /\ Top.pc = "return"
    /\ Len(stack) > 1
    /\ LET parent == stack[Len(stack) - 1]
       IN  stack' = [SubSeq(stack, 1, Len(stack) - 1) EXCEPT ![Len(stack) - 1] =
                       [parent EXCEPT !.self.return_links =
                                         AddSubLinks(@, Top.self.return_links),
                                      !.pos = @ + 1]]
    /\ UNCHANGED <<remote, cli, pass, lsState, fetched, cpVars>>

\* The outermost ls has returned to its caller.
LsDone ==
    /\ lsState = "running"
    /\ Top.pc = "return"
    /\ Len(stack) = 1
    /\ lsState' = "done"
    /\ UNCHANGED <<remote, cli, pass, stack, fetched, cpVars>>

\* ------------------------------------------------------------------ files
\* A file on the server: a 200 with a body and, in headers, Last-Modified or
\* nothing.
RemoteFile(body, last_modified) ==
    [error |-> "none", status |-> 200, text |-> <<>>, content |-> body,
     last_modified |-> last_modified]

NoHeader == <<>>

LastModifiedValues == { <<day, second>> : day \in 0..MaxDay, second \in {0, 1} }

\* parsedate(header).timestamp(): seconds since the epoch.
ParseDate(header) == header[1] * 86400 + header[2]

Timestamps == { ParseDate(h) : h \in LastModifiedValues }

\* pathlib.Path(*parts): the pieces of every part between slashes; empty
\* pieces and '.' are dropped.  A path is the sequence of its segments.
RECURSIVE PurePath(_)
PurePath(parts) ==
    IF parts = <<>> THEN <<>>
    ELSE SelectSeq(Split(Head(parts), "/"), LAMBDA g : g /= <<>> /\ g /= <<".">>)
         \o PurePath(Tail(parts))

Parent(path) == SubSeq(path, 1, Len(path) - 1)

\* The place of the last '.' of a name, or 0.
RECURSIVE LastDot(_, _)
LastDot(name, i) ==
    IF i = 0 THEN 0 ELSE IF name[i] = "." THEN i ELSE LastDot(name, i - 1)

\* Path.suffix: from the last '.' of the last segment, when that dot is
\* neither its first nor its last character.
Suffix(path) ==
    LET name == path[Len(path)]
        dot  == LastDot(name, Len(name))
    IN  IF dot > 1 /\ dot < Len(name) THEN SubSeq(name, dot, Len(name)) ELSE <<>>

\* What gzip.open(path, 'wb').write(content) leaves in the file.
Gzip(content) == <<"gzip">> \o content

\* The directory files are mirrored into, and what files hold.
Dest == <<"d">>

NewBody == <<"new">>

OldBody == <<"old">>

EmptyFs == [files |-> <<>>, dirs |-> {<<>>}]

IsFile(path) == path \in DOMAIN fs.files

IsDir(path) == path \in fs.dirs

Ancestors(path) == { SubSeq(path, 1, k) : k \in 0..(Len(path) - 1) }

\* What a call returns: None, a path, or (from sync_files, line 218) the
\* class RuntimeError.
Returned(path) == [kind |-> "path", value |-> path]
ReturnedNone == [kind |-> "None", value |-> <<>>]
ReturnedRuntimeError == [kind |-> "RuntimeError", value |-> <<>>]

\* An exception: its class and the arguments it carries.
Exception(type, args) == [type |-> type, args |-> args]
NoException == Exception("", <<>>)

\* A call of parser.cp(link) that is about to start (op "cp"), or of
\* websync.sync_files(remote_url, local_path) (op "sync_files").  branch says
\* where cp calls sync_files from: "new" (line 192) or "stale" (line 201).
\* pc "done" / "raised" end cp, and "sync_returned" / "sync_raised" end
\* sync_files.
CpCall(link) ==
    [op |-> "cp", link |-> link, outpath |-> <<>>, pc |-> "cp", branch |-> "",
     exc |-> NoException, result |-> ReturnedNone, heads |-> 0, gets |-> 0,
     writes |-> 0, res |-> Status(0)]

SyncFilesCall(remote_url, local_path) ==
    [op |-> "sync_files", link |-> remote_url, outpath |-> local_path, pc |-> "get",
     branch |-> "", exc |-> NoException, result |-> ReturnedNone, heads |-> 0,
     gets |-> 0, writes |-> 0, res |-> Status(0)]

Raise(task, type, args) == [task EXCEPT !.pc = "raised", !.exc = Exception(type, args)]

Return(task, result) == [task EXCEPT !.pc = "done", !.result = result]

SyncRaise(task, type, args) ==
    [task EXCEPT !.pc = "sync_raised", !.exc = Exception(type, args)]

SyncReturn(task, result) == [task EXCEPT !.pc = "sync_returned", !.result = result]

Finished(task) ==
    IF task.op = "cp" THEN task.pc \in {"done", "raised"}
    ELSE task.pc \in {"sync_returned", "sync_raised"}

\* Lines 187-188 alone, on the whole link.
LocalPathWithHost(self, link) ==
    PurePath(<<self.download_location, Replace(UrlSplit(link).netloc, <<".">>, <<"_">>)>>
             \o Split(UrlSplit(link).path, "/"))

\* cp, lines 179-188: the local path of a link.
LocalPath(self, link) ==
    LET split_result == IF self.no_parents
                        THEN UrlSplit(Replace(link, self.base_url, <<>>))
                        ELSE UrlSplit(link)
    IN  PurePath(<<self.download_location, Replace(split_result.netloc, <<".">>, <<"_">>)>>
                 \o Split(split_result.path, "/"))

\* Line 190: not outpath.is_file().
NothingThere(path) == ~IsFile(path) /\ ~IsDir(path)

NotAFile(path) == ~IsFile(path)

\* The calls a worker of the pool is busy with.
NoneRunning == {}

Running == { t \in DOMAIN tasks : tasks[t].pc /= "cp" /\ ~Finished(tasks[t]) }

\* cp, lines 177-190: a free worker takes the call, the first of the
\* executor's queue; the local path is computed and looked at.
CpStart(t) ==
    /\ tasks[t].pc = "cp"
    /\ \A u \in 1..(t - 1) : tasks[u].pc /= "cp"
    /\ Cardinality(Running) < MaxWorkers
    /\ LET outpath == LocalPath(stack[1].self, tasks[t].link)
       IN  tasks' = [tasks EXCEPT ![t] =
                        IF NotAFile(outpath)
                        THEN [@ EXCEPT !.outpath = outpath, !.pc = "get", !.branch = "new"]
                        ELSE [@ EXCEPT !.outpath = outpath, !.pc = "existing"]]
    /\ UNCHANGED <<remote, cli, pass, lsVars, fs, fsStart, now, kwargs>>

\* Line 200: the remote time is the greater.
Stale(url_date, st_mtime) == url_date > st_mtime

\* cp, lines 197-204: the file exists.  self.update_existing is read; the
\* parser has it only if __init__ stored it.  Then HEAD, and the transfer if
\* the remote time is the greater.
CpExisting(t) ==
    /\ tasks[t].pc = "existing"
    /\ LET self == stack[1].self
           task == tasks[t]
           req  == Resource(task.link)
           head == [task EXCEPT !.heads = @ + 1]
       IN  tasks' = [tasks EXCEPT ![t] =
              IF "update_existing" \notin DOMAIN self
              THEN Raise(task, "AttributeError", <<"update_existing">>)
              ELSE IF ~self.update_existing THEN Return(task, ReturnedNone)
              ELSE IF req.error /= "none" THEN Raise(head, "ConnectionError", <<>>)
              ELSE IF req.last_modified = NoHeader
              THEN Raise(head, "KeyError", <<"Last-Modified">>)
              ELSE IF Stale(ParseDate(req.last_modified), fs.files[task.outpath].mtime)
              THEN [head EXCEPT !.pc = "get", !.branch = "stale"]
              ELSE Return(head, ReturnedNone)]
    /\ UNCHANGED <<remote, cli, pass, lsVars, fs, fsStart, now, kwargs>>

\* Line 219: the transfer goes on.
TransferOkBelow500(req) == req.status < 500

TransferOk(req) == req.status = 200

\* sync_files, lines 210-219 and 230-231: the GET and what it meets.  A
\* connection error or a timeout makes sync_files return the class
\* RuntimeError (line 218).
SyncGet(t) ==
    /\ tasks[t].pc = "get"
    /\ LET req  == Resource(tasks[t].link)
           task == [tasks[t] EXCEPT !.gets = @ + 1, !.res = req]
       IN  tasks' = [tasks EXCEPT ![t] =
                        IF req.error = "decode" THEN SyncRaise(task, "RuntimeError", <<>>)
                        ELSE IF req.error = "connection"
                        THEN SyncReturn(task, ReturnedRuntimeError)
                        ELSE IF TransferOk(req) THEN [task EXCEPT !.pc = "mkdir"]
                        ELSE SyncRaise(task, "RuntimeError", <<req.status>>)]
    /\ UNCHANGED <<remote, cli, pass, lsVars, fs, fsStart, now, kwargs>>

\* sync_files, line 220: local_path.parent.mkdir(parents=True, exist_ok=True).
\* Nothing is made when a file stands where a directory is needed.
SyncMkdir(t) ==
    /\ tasks[t].pc = "mkdir"
    /\ LET path == tasks[t].outpath
       IN  IF IsFile(Parent(path))
           THEN /\ tasks' = [tasks EXCEPT ![t] = SyncRaise(@, "FileExistsError", <<>>)]
                /\ fs' = fs
           ELSE IF \E a \in Ancestors(path) : IsFile(a)
           THEN /\ tasks' = [tasks EXCEPT ![t] = SyncRaise(@, "NotADirectoryError", <<>>)]
                /\ fs' = fs
           ELSE /\ tasks' = [tasks EXCEPT ![t] = [@ EXCEPT !.pc = "write"]]
                /\ fs' = [fs EXCEPT !.dirs = @ \cup Ancestors(path)]
    /\ UNCHANGED <<remote, cli, pass, lsVars, fsStart, now, kwargs>>

\* What sync_files writes (lines 221-226): the body, through gzip when the
\* suffix ends with gz.
WrittenPlain(path, content) == content

Written(path, content) ==
    IF EndsWith(Suffix(path), <<"g", "z">>) THEN Gzip(content) ELSE content

\* sync_files, lines 221-226: the file is opened for writing, which empties
\* it and stamps it with the clock, and the body is written.
SyncWrite(t) ==
    /\ tasks[t].pc = "write"
    /\ LET path == tasks[t].outpath
       IN  IF IsDir(path)
           THEN /\ tasks' = [tasks EXCEPT ![t] = SyncRaise(@, "IsADirectoryError", <<>>)]
                /\ fs' = fs
           ELSE /\ tasks' = [tasks EXCEPT ![t] = [@ EXCEPT !.pc = "utime", !.writes = @ + 1]]
                /\ fs' = [fs EXCEPT !.files =
                             [p \in DOMAIN fs.files \cup {path} |->
                                 IF p = path
                                 THEN [content |-> Written(path, tasks[t].res.content),
                                       mtime |-> now]
                                 ELSE fs.files[p]]]
    /\ UNCHANGED <<remote, cli, pass, lsVars, fsStart, now, kwargs>>

\* The modification time os.utime is given (line 227).
ModifiedTimeNow(header) == now

ModifiedTime(header) == ParseDate(header)

\* sync_files, lines 227-229: the modification time is set from the
\* response's Last-Modified header, and sync_files returns.
SyncUtime(t) ==
    /\ tasks[t].pc = "utime"
    /\ LET path   == tasks[t].outpath
           header == tasks[t].res.last_modified
       IN  IF header = NoHeader
           THEN /\ tasks' = [tasks EXCEPT ![t] = SyncRaise(@, "KeyError", <<"Last-Modified">>)]
                /\ fs' = fs
           ELSE /\ tasks' = [tasks EXCEPT ![t] = SyncReturn(@, ReturnedNone)]
                /\ fs' = [fs EXCEPT !.files[path].mtime = ModifiedTime(header)]
    /\ UNCHANGED <<remote, cli, pass, lsVars, fsStart, now, kwargs>>

\* cp, lines 191-196 and 201-203: sync_files has returned or raised.  A
\* RuntimeError is caught where cp transfers a new file, and cp returns
\* None; any other exception goes on to cp's caller; after a return of
\* sync_files, cp returns the path.
CpAfterSync(t) ==
    /\ tasks[t].op = "cp"
    /\ tasks[t].pc \in {"sync_returned", "sync_raised"}
    /\ LET task == tasks[t]
       IN  tasks' = [tasks EXCEPT ![t] =
              IF task.pc = "sync_returned" THEN Return(task, Returned(task.outpath))
              ELSE IF task.exc.type = "RuntimeError" /\ task.branch = "new"
              THEN Return([task EXCEPT !.exc = NoException], ReturnedNone)
              ELSE Raise(task, task.exc.type, task.exc.args)]
    /\ UNCHANGED <<remote, cli, pass, lsVars, fs, fsStart, now, kwargs>>

\* ------------------------------------------------------------------ scrape
Kwargs(base, location, ex, inc, recursive, no_parents, update_existing) ==
    [url |-> base, download_location |-> location, regex_exclude |-> ex,
     regex_include |-> inc, recursive |-> recursive, no_parents |-> no_parents,
     update_existing |-> update_existing]

\* websync(**kwargs)
Websync(kw) ==
    WebsyncInit(kw.url, kw.download_location, kw.regex_exclude, kw.regex_include,
                kw.recursive, kw.no_parents, kw.update_existing)

\* No call of scraper.scrape is under way.
NoPass ==
    [func |-> "", run |-> 0, pc |-> "none", callback_func |-> FALSE, collected |-> {},
     callbacks |-> 0, reported |-> <<>>, most_recent_files |-> <<>>,
     exc |-> NoException, log |-> <<>>]

\* Two calls of scraper.scrape(url, callback_func, **kwargs) are to be made.
FirstPass(callback_func) ==
    [NoPass EXCEPT !.func = "scrape", !.run = 1, !.pc = "start",
                   !.callback_func = callback_func]

\* Lines 242-243
WithSlash(url) == IF EndsWith(url, <<"/">>) THEN url ELSE url \o <<"/">>

\* scrape, lines 242-248: the parser is made and its ls(recursive=True)
\* is called.
ScrapeStart ==
    /\ pass.pc = "start"
    /\ stack' = << LsCall(Websync([kwargs EXCEPT !.url = WithSlash(kwargs.url)]), TRUE, None) >>
    /\ lsState' = "running"
    /\ fetched' = <<>>
    /\ tasks' = <<>>
    /\ fsStart' = fs
    /\ pass' = [pass EXCEPT !.pc = "pool", !.collected = {}, !.callbacks = 0,
                            !.reported = <<>>, !.exc = NoException]
    /\ UNCHANGED <<remote, cli, fs, now, kwargs>>

\* keep_scraping, line 277: the list differs from the one of the last
\* transfer phase.
ListChangedAsSet ==
    { stack[1].self.return_links[i] : i \in DOMAIN stack[1].self.return_links }
        /= { pass.most_recent_files[i] : i \in DOMAIN pass.most_recent_files }

ListChanged == stack[1].self.return_links /= pass.most_recent_files

\* The listing is over and the executor is made (lines 250, and 277-279).
InPool ==
    /\ pass.pc = "pool"
    /\ lsState = "done"
    /\ pass.func = "keep_scraping" => ListChanged

\* Lines 252-253: executor.submit(parser.cp, link), link after link.
Submit ==
    /\ InPool
    /\ Len(tasks) < Len(stack[1].self.return_links)
    /\ tasks' = Append(tasks, CpCall(stack[1].self.return_links[Len(tasks) + 1]))
    /\ UNCHANGED <<remote, cli, pass, lsVars, fs, fsStart, now, kwargs>>

AllSubmitted == Len(tasks) = Len(stack[1].self.return_links)

\* Lines 258-261: the callback has been called and has returned, or has
\* raised an Exception, which is caught and logged.
AfterCallbackUncaught(p, failed) ==
    IF failed THEN [p EXCEPT !.pc = "exit", !.exc = Exception("Exception", <<>>)] ELSE p

AfterCallback(p, failed) == p

\* Lines 255-262: as_completed yields a finished call; x.result() raises
\* what the call raised, which leaves the loop; a result other than None is
\* given to the callback, which returns or raises.
Collect(t) ==
    /\ InPool
    /\ AllSubmitted
    /\ t \notin pass.collected
    /\ Finished(tasks[t])
    /\ IF tasks[t].pc = "raised"
       THEN pass' = [pass EXCEPT !.pc = "exit", !.exc = tasks[t].exc,
                                 !.collected = @ \cup {t}]
       ELSE IF tasks[t].result.kind /= "None" /\ pass.callback_func
       THEN \E failed \in BOOLEAN :
               pass' = AfterCallback(
                          [pass EXCEPT !.collected = @ \cup {t},
                                       !.callbacks = @ + 1,
                                       !.reported = Append(@, [call |-> t,
                                                               path |-> tasks[t].result.value,
                                                               failed |-> failed])],
                          failed)
       ELSE pass' = [pass EXCEPT !.collected = @ \cup {t}]
    /\ UNCHANGED <<remote, cli, lsVars, cpVars>>

RECURSIVE SumOf(_, _)
SumOf(field, n) == IF n = 0 THEN 0 ELSE tasks[n][field] + SumOf(field, n - 1)

\* What a call of scrape did.
Summary ==
    [exc |-> pass.exc, links |-> stack[1].self.return_links,
     calls |-> [t \in DOMAIN tasks |-> tasks[t].link],
     pending |-> { t \in DOMAIN tasks : ~Finished(tasks[t]) },
     heads |-> SumOf("heads", Len(tasks)), gets |-> SumOf("gets", Len(tasks)),
     writes |-> SumOf("writes", Len(tasks)), callbacks |-> pass.callbacks,
     reported |-> pass.reported, before |-> fsStart,
     previous |-> pass.most_recent_files, transfer |-> TRUE]

\* The executor's __exit__ (shutdown(wait=True)) lets go.
PoolDrainedOrLeft == pass.pc = "exit" \/ \A t \in DOMAIN tasks : Finished(tasks[t])

PoolDrained == \A t \in DOMAIN tasks : Finished(tasks[t])

\* Lines 250 and 264: the executor's __exit__ waits for every submitted
\* call, and scrape returns, or raises what left the loop.  The second call
\* of scrape follows the first.
ScrapeReturn ==
    /\ pass.func = "scrape"
    /\ \/ pass.pc = "exit"
       \/ InPool /\ AllSubmitted /\ pass.collected = DOMAIN tasks
    /\ PoolDrained
    /\ pass' = [pass EXCEPT !.log = Append(@, Summary),
                            !.run = IF @ = 1 THEN 2 ELSE @,
                            !.pc = IF pass.run = 1 THEN "start" ELSE "over"]
    /\ UNCHANGED <<remote, cli, lsVars, cpVars>>

\* ------------------------------------------------------------------ keep_scraping
\* The iterations of keep_scraping that are followed are at most this many.
MaxIterations == 2

\* keep_scraping(url, callback_func, **kwargs) is called.
FirstIteration(callback_func) ==
    [NoPass EXCEPT !.func = "keep_scraping", !.run = 1, !.pc = "start",
                   !.callback_func = callback_func]

\* Lines 277 and 296-297: the list is the one of the last transfer phase;
\* nothing is submitted, and the iteration goes to sleep.
KeepSkip ==
    /\ pass.func = "keep_scraping"
    /\ pass.pc = "pool"
    /\ lsState = "done"
    /\ ~ListChanged
    /\ pass' = [pass EXCEPT !.pc = "sleep",
                            !.log = Append(@, [Summary EXCEPT !.transfer = FALSE])]
    /\ UNCHANGED <<remote, cli, lsVars, cpVars>>

\* Lines 279-297: the executor's __exit__ waits for every submitted call;
\* then the list is remembered and the iteration goes to sleep, or
\* keep_scraping raises what left the loop.
KeepTransferred ==
    /\ pass.func = "keep_scraping"
    /\ \/ pass.pc = "exit"
       \/ InPool /\ AllSubmitted /\ pass.collected = DOMAIN tasks
    /\ PoolDrained
    /\ pass' = IF pass.pc = "exit"
               THEN [pass EXCEPT !.pc = "over", !.log = Append(@, Summary)]
               ELSE [pass EXCEPT !.pc = "sleep", !.log = Append(@, Summary),
                                 !.most_recent_files = stack[1].self.return_links]
    /\ UNCHANGED <<remote, cli, lsVars, cpVars>>

\* The root pages the server has, one after the other.
KeepPages ==
    { <<>>,
      << Href(<<"f", "1">>) >>,
      << Href(<<"f", "1">>), Href(<<"g", ".", "g", "z">>) >>,
      << Href(<<"g", ".", "g", "z">>), Href(<<"f", "1">>) >>,
      << Href(<<"u", "/">>), Href(<<"f", "1">>) >> }

\* Line 297: time.sleep(SERVICE_REFRESH_MINS*60), while the server's root
\* page may change; then the next iteration.
Sleep ==
    /\ pass.pc = "sleep"
    /\ pass.run < MaxIterations
    /\ \E attrs \in KeepPages : remote' = [remote EXCEPT ![BaseUrl] = Page(attrs)]
    /\ pass' = [pass EXCEPT !.pc = "start", !.run = @ + 1]
    /\ UNCHANGED <<cli, lsVars, cpVars>>

\* The command line: every option is None when it is not given, and a
\* string otherwise; --output has the default './'.
Args(url, output, config, service) ==
    [url |-> url, output |-> output, config |-> config, service |-> service]

\* argparse's type=bool: bool(string), true of every string but the empty
\* one; the default is False.
Bool(service) == service /= None /\ service /= <<>>

\* A mapping, as the sequence of its items in order.
Item(key, value) == [key |-> key, value |-> value]

HasKey(mapping, key) == \E i \in DOMAIN mapping : mapping[i].key = key

\* mapping[key] = value
SetItem(mapping, key, value) ==
    IF HasKey(mapping, key)
    THEN [i \in DOMAIN mapping |->
             IF mapping[i].key = key THEN Item(key, value) ELSE mapping[i]]
    ELSE Append(mapping, Item(key, value))

\* mapping.pop(key, default): what is left of the mapping.
PopKeepsAll(mapping, key) == mapping

Pop(mapping, key) == SelectSeq(mapping, LAMBDA item : item.key /= key)

\* mapping.pop(key, default): what it returns.
Popped(mapping, key, default) ==
    IF HasKey(mapping, key)
    THEN mapping[CHOOSE i \in DOMAIN mapping : mapping[i].key = key].value
    ELSE default

Keys(mapping) == [i \in DOMAIN mapping |-> mapping[i].key]

\* main has not been called.  file is what yaml.safe_load gives for the
\* file of --config; taken is the set of the markers that other processes
\* hold.
NoCli ==
    [pc |-> "none", args |-> Args(None, None, None, None), file |-> <<>>,
     taken |-> {}, config |-> <<>>, func |-> "", marker |-> None,
     jobs |-> <<>>, logged |-> {}, exc |-> NoException]

MainCall(args, file, taken) ==
    [NoCli EXCEPT !.pc = "cli", !.args = args, !.file = file, !.taken = taken]

\* Line 329
NothingRequired(args) == FALSE

NothingToScrape(args) == args.url = None /\ args.config = None

\* command_line_interface, lines 300-341: the options are parsed; without
\* --url and --config RuntimeError is raised; the configuration is the
\* file's, or one site made of --url and --output; the service flag is put
\* into it.
CommandLineInterface ==
    /\ cli.pc = "cli"
    /\ cli' = IF NothingToScrape(cli.args)
              THEN [cli EXCEPT !.pc = "raised",
                               !.exc = Exception("RuntimeError",
                                                 <<"Requires either --url or --config ">>)]
              ELSE LET config == IF cli.args.config /= None THEN cli.file
                                 ELSE << Item("scraped_site",
                                              [url |-> cli.args.url,
                                               download_location |-> cli.args.output]) >>
                   IN  [cli EXCEPT !.pc = "main",
                                   !.config = SetItem(config, "service", Bool(cli.args.service))]
    /\ UNCHANGED <<remote, lsVars, cpVars, pass>>

\* The marker's name, '_'.join(config.keys()): the names of the sites, in
\* the order of the configuration.
MarkerName(config) == Keys(config)

\* Lines 349-351: s.bind raises OSError when the name is bound already.
BindNeverFails(name, taken) == FALSE

BindFails(name, taken) == name \in taken

\* main, lines 345-356: the service flag is taken out of the configuration;
\* in service mode the marker named after the sites is bound, and main
\* returns when it is taken.
MainService ==
    /\ cli.pc = "main"
    /\ LET run_as_service == Popped(cli.config, "service", FALSE)
           config == Pop(cli.config, "service")
       IN  cli' = IF run_as_service /\ BindFails(MarkerName(config), cli.taken)
                  THEN [cli EXCEPT !.pc = "returned", !.config = config]
                  ELSE [cli EXCEPT !.pc = "submit", !.config = config,
                                   !.marker = IF run_as_service THEN MarkerName(config)
                                              ELSE None,
                                   !.func = IF run_as_service THEN "keep_scraping"
                                            ELSE "scrape"]
    /\ UNCHANGED <<remote, lsVars, cpVars, pass>>

\* A job of the executor: func(*args, **kwargs), waiting for a worker.
Job(site, func, data) ==
    [site |-> site, func |-> func, args |-> <<>>, kwargs |-> data, pc |-> "queued"]

\* Lines 362-364: executor.submit(func, **data), site after site.
MainSubmit ==
    /\ cli.pc = "submit"
    /\ cli' = IF Len(cli.jobs) < Len(cli.config)
              THEN LET item == cli.config[Len(cli.jobs) + 1]
                   IN  [cli EXCEPT !.jobs = Append(@, Job(item.key, cli.func, item.value))]
              ELSE [cli EXCEPT !.pc = "as_completed"]
    /\ UNCHANGED <<remote, lsVars, cpVars, pass>>

\* A worker of main's executor takes the next job of the queue.
JobStart(j) ==
    /\ cli.jobs[j].pc = "queued"
    /\ \A i \in 1..(j - 1) : cli.jobs[i].pc /= "queued"
    /\ Cardinality({ i \in DOMAIN cli.jobs : cli.jobs[i].pc = "running" }) < MaxSiteWorkers
    /\ cli' = [cli EXCEPT !.jobs[j].pc = "running"]
    /\ UNCHANGED <<remote, lsVars, cpVars, pass>>

\* The job's function returns or raises; keep_scraping does not return.
JobEnd(j) ==
    /\ cli.jobs[j].pc = "running"
    /\ \E pc \in {"returned", "raised"} :
          /\ pc = "returned" => cli.jobs[j].func = "scrape"
          /\ cli' = [cli EXCEPT !.jobs[j].pc = pc]
    /\ UNCHANGED <<remote, lsVars, cpVars, pass>>

\* Lines 366-368: as_completed yields a job that is over, and its
\* exception is logged.
MainLog(j) ==
    /\ cli.pc = "as_completed"
    /\ j \notin cli.logged
    /\ cli.jobs[j].pc \in {"returned", "raised"}
    /\ cli' = [cli EXCEPT !.logged = @ \cup {j}]
    /\ UNCHANGED <<remote, lsVars, cpVars, pass>>

\* Lines 361 and 371: every job is over, and main returns.
MainReturn ==
    /\ cli.pc = "as_completed"
    /\ cli.logged = DOMAIN cli.jobs
    /\ cli' = [cli EXCEPT !.pc = "returned"]
    /\ UNCHANGED <<remote, lsVars, cpVars, pass>>

\* The command lines and the configuration files main is called with.
Url1 == <<"u", "r", "l">>

OutputDir == <<"o", "u", "t", "p", "u", "t", "d", "i", "r">>

ConfigName == <<"c", ".", "y", "m", "l">>

ServiceOptions == { None, <<>>, <<"T", "r", "u", "e">>, <<"F", "a", "l", "s", "e">> }

TestBlock == [url |-> BaseUrl, regex_exclude |-> <<"(", ".", "*", "1", ".", "*", ")">>]

OtherBlock == [url |-> Url1, download_location |-> OutputDir, no_parents |-> TRUE]

ConfigFiles ==
    { << Item("test", TestBlock) >>,
      << Item("test", TestBlock), Item("other", OtherBlock) >>,
      << Item("service", TRUE), Item("other", OtherBlock), Item("test", TestBlock) >>,
      << >> }

\* The names the markers of these configurations have.
MarkerNames ==
    { MarkerName(Pop(file, "service")) : file \in ConfigFiles } \cup { <<"scraped_site">> }

\* main is called while every marker is free, or while every one is held.
InitMain ==
    \E url \in {None, Url1}, output \in {DefaultLocation, OutputDir},
       config \in {None, ConfigName}, service \in ServiceOptions,
       file \in ConfigFiles, taken \in { {}, MarkerNames } :
        /\ config = None => file = <<>>
        /\ cli = MainCall(Args(url, output, config, service), file, taken)
        /\ remote = << >>
        /\ stack = <<>>
        /\ lsState = "idle"
        /\ fetched = <<>>
        /\ fs = EmptyFs
        /\ fsStart = EmptyFs
        /\ now = 0
        /\ tasks = <<>>
        /\ kwargs = <<>>
        /\ pass = NoPass

NextMain ==
    \/ CommandLineInterface
    \/ MainService
    \/ MainSubmit
    \/ \E j \in DOMAIN cli.jobs : JobStart(j)
    \/ \E j \in DOMAIN cli.jobs : JobEnd(j)
    \/ \E j \in DOMAIN cli.jobs : MainLog(j)
    \/ MainReturn

SpecMain == InitMain /\ [][NextMain]_vars

\* ------------------------------------------------------------------ several processes
\* The other processes that hold a marker are at most this many.
MaxPeers == 2

\* This process holds its marker: the socket lives from the bind to the
\* return of main.
Holds == cli.marker /= None /\ cli.pc \in {"submit", "as_completed"}

\* Another process, started in service mode for a configuration whose
\* marker is free, binds it (lines 349-350) and goes on to its sync loops.
PeerBinds ==
    /\ Cardinality(cli.taken) < MaxPeers
    /\ \E name \in MarkerNames \ cli.taken :
          /\ ~(Holds /\ cli.marker = name)
          /\ cli' = [cli EXCEPT !.taken = @ \cup {name}]
    /\ UNCHANGED <<remote, lsVars, cpVars, pass>>

\* Another process ends (its main returns, line 371, or it is stopped), and
\* its marker is free again.
PeerExits ==
    /\ \E name \in cli.taken : cli' = [cli EXCEPT !.taken = @ \ {name}]
    /\ UNCHANGED <<remote, lsVars, cpVars, pass>>

\* main is called while other processes hold some of the markers.
InitService ==
    \E url \in {None, Url1}, config \in {None, ConfigName}, service \in ServiceOptions,
       file \in ConfigFiles, taken \in { t \in SUBSET MarkerNames : Cardinality(t) <= MaxPeers } :
        /\ config = None => file = <<>>
        /\ cli = MainCall(Args(url, DefaultLocation, config, service), file, taken)
        /\ remote = << >>
        /\ stack = <<>>
        /\ lsState = "idle"
        /\ fetched = <<>>
        /\ fs = EmptyFs
        /\ fsStart = EmptyFs
        /\ now = 0
        /\ tasks = <<>>
        /\ kwargs = <<>>
        /\ pass = NoPass

NextService ==
    \/ CommandLineInterface
    \/ MainService
    \/ MainSubmit
    \/ \E j \in DOMAIN cli.jobs : JobStart(j)
    \/ \E j \in DOMAIN cli.jobs : JobEnd(j)
    \/ \E j \in DOMAIN cli.jobs : MainLog(j)
    \/ MainReturn
    \/ PeerBinds
    \/ PeerExits

SpecService == InitService /\ [][NextService]_vars

\* ------------------------------------------------------------------ many sites
\* The sites of a configuration that are more than the workers of main's
\* executor are at most this many.
MaxWaiting == 1

\* A configuration file of n sites.
ManySites(n) == [i \in 1..n |-> Item(ToString(i), [url |-> BaseUrl])]

\* main is called with --config, in service mode for a file of as many sites
\* as the executor has workers and more, or for a few sites in one pass.
InitSites ==
    \E service \in {None, <<"T", "r", "u", "e">>} :
      \E n \in IF service = None THEN 1..3
                ELSE MaxSiteWorkers..(MaxSiteWorkers + MaxWaiting) :
        /\ cli = MainCall(Args(None, DefaultLocation, ConfigName, service), ManySites(n), {})
        /\ remote = << >>
        /\ stack = <<>>
        /\ lsState = "idle"
        /\ fetched = <<>>
        /\ fs = EmptyFs
        /\ fsStart = EmptyFs
        /\ now = 0
        /\ tasks = <<>>
        /\ kwargs = <<>>
        /\ pass = NoPass

\* The steps of main and of its jobs, where a call of scrape comes to an end
\* and the loop of keep_scraping goes on for ever.
NextSites ==
    \/ CommandLineInterface
    \/ MainService
    \/ MainSubmit
    \/ \E j \in DOMAIN cli.jobs : JobStart(j)
    \/ \E j \in DOMAIN cli.jobs : JobEnd(j) /\ cli.jobs[j].func = "scrape"
    \/ \E j \in DOMAIN cli.jobs : MainLog(j)
    \/ MainReturn

\* The main thread goes on, a free worker takes the next job of the queue,
\* and a job that can end does.
SpecSites == InitSites /\ [][NextSites]_vars /\ WF_vars(NextSites)

\* ------------------------------------------------------------------ two passes
\* A site to mirror: its root page has anchors to a file, to a file whose
\* name ends with gz, and to a subdirectory that lists one file; each file
\* is answered in one way.
FileHrefs == { <<"f", "1">>, <<"g", ".", "g", "z">>, <<"u", "/", "k">> }

MirrorHrefs == { <<"f", "1">>, <<"g", ".", "g", "z">>, <<"u", "/">> }

MirrorAnswers ==
    { RemoteFile(NewBody, <<0, 1>>), RemoteFile(NewBody, NoHeader),
      Status(404), Failing("connection") }

\* The file of the root page is answered in any of these ways, the file
\* whose name ends with gz is always found, and the file of the
\* subdirectory always has its header.
AnswersOf(file) ==
    IF file = <<"f", "1">> THEN MirrorAnswers
    ELSE IF file = <<"g", ".", "g", "z">> THEN MirrorAnswers \ {Status(404)}
    ELSE { RemoteFile(NewBody, <<0, 1>>), Status(404) }

SiteAnswers == { answer \in [FileHrefs -> MirrorAnswers] :
                    \A file \in FileHrefs : answer[file] \in AnswersOf(file) }

Listed(attrs, file) ==
    \E i \in DOMAIN attrs : attrs[i] = file \/ StartsWith(file, attrs[i])

MirrorSite(attrs, answer) ==
    LET listed == { f \in FileHrefs : Listed(attrs, f) }
        urls   == { UrlJoin(BaseUrl, f) : f \in listed }
    IN  [u \in urls |-> answer[CHOOSE f \in listed : UrlJoin(BaseUrl, f) = u]]
        @@ (BaseUrl :> Page([i \in DOMAIN attrs |-> Href(attrs[i])]))
        @@ (UrlJoin(BaseUrl, <<"u", "/">>) :> Page(<< Href(<<"k">>) >>))

\* The ways scrape is called: with the defaults; without the final slash of
\* the URL, not recursive, with a callback; and with no_parents, without
\* update_existing, with a callback.
Call(slash, recursive, no_parents, update_existing, callback_func) ==
    [slash |-> slash, recursive |-> recursive, no_parents |-> no_parents,
     update_existing |-> update_existing, callback_func |-> callback_func]

Calls ==
    { Call(TRUE, TRUE, FALSE, TRUE, FALSE),
      Call(FALSE, FALSE, FALSE, TRUE, TRUE),
      Call(TRUE, TRUE, TRUE, FALSE, TRUE) }

Init ==
    \E attrs \in SeqsUpTo(MirrorHrefs, MaxLinks), answer \in SiteAnswers, call \in Calls :
        /\ kwargs = Kwargs(IF call.slash THEN BaseUrl
                           ELSE SubSeq(BaseUrl, 1, Len(BaseUrl) - 1),
                           Dest, None, None, call.recursive, call.no_parents,
                           call.update_existing)
        /\ remote = MirrorSite(attrs, answer)
        /\ stack = <<>>
        /\ lsState = "idle"
        /\ fetched = <<>>
        /\ fs = EmptyFs
        /\ fsStart = EmptyFs
        /\ now = ParseDate(<<MaxDay, 1>>) + 1
        /\ tasks = <<>>
        /\ pass = FirstPass(call.callback_func)
        /\ cli = NoCli

Next ==
    \/ ScrapeStart
    \/ LsGet
    \/ FindDownloadLinks
    \/ FeedDone
    \/ LsReturn
    \/ LsDone
    \/ Submit
    \/ \E t \in DOMAIN tasks : CpStart(t)
    \/ \E t \in DOMAIN tasks : CpExisting(t)
    \/ \E t \in DOMAIN tasks : SyncGet(t)
    \/ \E t \in DOMAIN tasks : SyncMkdir(t)
    \/ \E t \in DOMAIN tasks : SyncWrite(t)
    \/ \E t \in DOMAIN tasks : SyncUtime(t)
    \/ \E t \in DOMAIN tasks : CpAfterSync(t)
    \/ \E t \in DOMAIN tasks : Collect(t)
    \/ ScrapeReturn

Spec == Init /\ [][Next]_vars

\* ------------------------------------------------------------------ one call
\* A parser made with any no_parents and update_existing, and one call of
\* cp(link), or of sync_files(link, path), with the local path in any state
\* and the server answering in any way.
CpLinks ==
    { UrlJoin(BaseUrl, <<"f", "1">>),
      UrlJoin(BaseUrl, <<"g", ".", "g", "z">>),
      UrlJoin(BaseUrl, <<"u", "/", "k">>) }

FileAnswers ==
    { RemoteFile(NewBody, h) : h \in LastModifiedValues \cup {NoHeader} }
        \cup { Status(404), Status(500), Failing("connection"), Failing("decode") }

\* The states of the local path: nothing there (with or without its
\* parent directories), an older or newer file, a directory, or a file where
\* its parent directory should be.
FsWithFile(path, content, mtime) ==
    [files |-> (path :> [content |-> content, mtime |-> mtime]),
     dirs  |-> Ancestors(path)]

LocalStates(path) ==
    { EmptyFs,
      [files |-> <<>>, dirs |-> Ancestors(path)],
      [files |-> <<>>, dirs |-> Ancestors(path) \cup {path}],
      FsWithFile(Parent(path), OldBody, 0) }
        \cup { FsWithFile(path, OldBody, m) : m \in Timestamps }

InitCp ==
    \E link \in CpLinks, answer \in FileAnswers, no_parents \in BOOLEAN,
       update_existing \in BOOLEAN, direct \in BOOLEAN, clock \in {0, 1} :
        LET kw   == Kwargs(BaseUrl, Dest, None, None, TRUE, no_parents, update_existing)
            path == LocalPath(Websync(kw), link)
        IN  \E local \in LocalStates(path) :
                /\ kwargs = kw
                /\ remote = (link :> answer)
                /\ stack = << LsCall(Websync(kw), TRUE, None) >>
                /\ lsState = "idle"
                /\ fetched = <<>>
                /\ fs = local
                /\ fsStart = local
                /\ now = ParseDate(<<MaxDay, 1>>) * clock
                /\ tasks = << IF direct THEN SyncFilesCall(link, path) ELSE CpCall(link) >>
                /\ pass = NoPass
        /\ cli = NoCli
                /\ cli = NoCli

NextCp ==
    \/ \E t \in DOMAIN tasks : CpStart(t)
    \/ \E t \in DOMAIN tasks : CpExisting(t)
    \/ \E t \in DOMAIN tasks : SyncGet(t)
    \/ \E t \in DOMAIN tasks : SyncMkdir(t)
    \/ \E t \in DOMAIN tasks : SyncWrite(t)
    \/ \E t \in DOMAIN tasks : SyncUtime(t)
    \/ \E t \in DOMAIN tasks : CpAfterSync(t)

SpecCp == InitCp /\ [][NextCp]_vars

\* ------------------------------------------------------------------ a long listing
\* A site whose root page lists a subdirectory with a new file, and then
\* many times a file that is there locally: as many links as the pool has
\* workers, or more.  scrape is called with the defaults.
Repeat(x, n) == [i \in 1..n |-> x]

LongPage(n) ==
    Page(<< Href(<<"u", "/">>) >> \o Repeat(Href(<<"f", "1">>), n - 1))

LongSite(n) ==
    (BaseUrl :> LongPage(n))
    @@ (UrlJoin(BaseUrl, <<"u", "/">>) :> Page(<< Href(<<"k">>) >>))
    @@ [u \in { UrlJoin(BaseUrl, f) : f \in FileHrefs } |-> RemoteFile(NewBody, <<0, 1>>)]

InitPool ==
    \E n \in MaxWorkers..(MaxWorkers + MaxQueued) :
      LET call == Call(TRUE, TRUE, FALSE, TRUE, FALSE)
      IN
        /\ kwargs = Kwargs(IF call.slash THEN BaseUrl
                           ELSE SubSeq(BaseUrl, 1, Len(BaseUrl) - 1),
                           Dest, None, None, call.recursive, call.no_parents,
                           call.update_existing)
        /\ remote = LongSite(n)
        /\ stack = <<>>
        /\ lsState = "idle"
        /\ fetched = <<>>
        /\ fs = FsWithFile(LocalPath(Websync(kwargs), UrlJoin(BaseUrl, <<"f", "1">>)), OldBody, 0)
        /\ fsStart = fs
        /\ now = ParseDate(<<MaxDay, 1>>) + 1
        /\ tasks = <<>>
        /\ pass = FirstPass(call.callback_func)
        /\ cli = NoCli

SpecPool == InitPool /\ [][Next]_vars

\* ------------------------------------------------------------------ two links, one path
\* A root page with two anchors that lead to the same local file: the file
\* and the file with a query (urlsplit leaves the query out of the path), in
\* either order, or the same file twice.  An empty directory comes last.
WithQuery == <<"f", "1", "?", "v">>

RacePages ==
    { << <<"f", "1">>, WithQuery >>, << WithQuery, <<"f", "1">> >>,
      << <<"f", "1">>, <<"f", "1">> >> }

\* What the URL with the query answers; the file itself has the old body.
RaceAnswers ==
    << RemoteFile(NewBody, <<MaxDay, 0>>), RemoteFile(NewBody, <<0, 1>>), Status(404) >>

RaceSite(attrs, answer) ==
    (BaseUrl :> Page([i \in DOMAIN attrs |-> Href(attrs[i])] \o << Href(<<"s", "/">>) >>))
    @@ (UrlJoin(BaseUrl, <<"s", "/">>) :> Page(<<>>))
    @@ (UrlJoin(BaseUrl, <<"f", "1">>) :> RemoteFile(OldBody, <<0, 1>>))
    @@ (UrlJoin(BaseUrl, WithQuery) :> answer)

\* scrape is called with the defaults and a download location, nothing
\* being there locally.
InitRace ==
    \E attrs \in RacePages, answer \in DOMAIN RaceAnswers, callback_func \in BOOLEAN :
        /\ kwargs = Kwargs(BaseUrl, Dest, None, None, TRUE, FALSE, TRUE)
        /\ remote = RaceSite(attrs, RaceAnswers[answer])
        /\ stack = <<>>
        /\ lsState = "idle"
        /\ fetched = <<>>
        /\ fs = EmptyFs
        /\ fsStart = EmptyFs
        /\ now = ParseDate(<<MaxDay, 1>>) + 1
        /\ tasks = <<>>
        /\ pass = FirstPass(callback_func)
        /\ cli = NoCli

SpecRace == InitRace /\ [][Next]_vars

\* ------------------------------------------------------------------ continuous mode
\* keep_scraping on a site whose files are all served; the GET of the root
\* page's first file may fail to connect.
KeepSite(attrs, failing) ==
    (BaseUrl :> Page(attrs))
    @@ (UrlJoin(BaseUrl, <<"u", "/">>) :> Page(<< Href(<<"k">>) >>))
    @@ [u \in { UrlJoin(BaseUrl, f) : f \in FileHrefs } |->
           IF failing /\ u = UrlJoin(BaseUrl, <<"f", "1">>) THEN Failing("connection")
           ELSE RemoteFile(NewBody, <<0, 1>>)]

InitKeep ==
    \E attrs \in KeepPages, failing \in BOOLEAN, slash \in BOOLEAN :
        /\ kwargs = Kwargs(IF slash THEN BaseUrl ELSE SubSeq(BaseUrl, 1, Len(BaseUrl) - 1),
                           Dest, None, None, TRUE, FALSE, TRUE)
        /\ remote = KeepSite(attrs, failing)
        /\ stack = <<>>
        /\ lsState = "idle"
        /\ fetched = <<>>
        /\ fs = EmptyFs
        /\ fsStart = EmptyFs
        /\ now = ParseDate(<<MaxDay, 1>>) + 1
        /\ tasks = <<>>
        /\ pass = FirstIteration(TRUE)
        /\ cli = NoCli

NextKeep ==
    \/ ScrapeStart
    \/ LsGet
    \/ FindDownloadLinks
    \/ FeedDone
    \/ LsReturn
    \/ LsDone
    \/ Submit
    \/ \E t \in DOMAIN tasks : CpStart(t)
    \/ \E t \in DOMAIN tasks : CpExisting(t)
    \/ \E t \in DOMAIN tasks : SyncGet(t)
    \/ \E t \in DOMAIN tasks : SyncMkdir(t)
    \/ \E t \in DOMAIN tasks : SyncWrite(t)
    \/ \E t \in DOMAIN tasks : SyncUtime(t)
    \/ \E t \in DOMAIN tasks : CpAfterSync(t)
    \/ \E t \in DOMAIN tasks : Collect(t)
    \/ KeepSkip
    \/ KeepTransferred
    \/ Sleep

SpecKeep == InitKeep /\ [][NextKeep]_vars

\* ------------------------------------------------------------------ continuous mode: the server comes back
\* Line 297: time.sleep(SERVICE_REFRESH_MINS*60), while the server starts to
\* serve the files it failed to serve, its root page being what it was;
\* then the next iteration.
SleepRestored ==
    /\ pass.pc = "sleep"
    /\ pass.run < MaxIterations
    /\ \E u \in DOMAIN remote : remote[u].error /= "none"
    /\ remote' = [u \in DOMAIN remote |->
                     IF remote[u].error /= "none" THEN RemoteFile(NewBody, <<0, 1>>)
                     ELSE remote[u]]
    /\ pass' = [pass EXCEPT !.pc = "start", !.run = @ + 1]
    /\ UNCHANGED <<cli, lsVars, cpVars>>

NextRetry ==
    \/ ScrapeStart
    \/ LsGet
    \/ FindDownloadLinks
    \/ FeedDone
    \/ LsReturn
    \/ LsDone
    \/ Submit
    \/ \E t \in DOMAIN tasks : CpStart(t)
    \/ \E t \in DOMAIN tasks : CpExisting(t)
    \/ \E t \in DOMAIN tasks : SyncGet(t)
    \/ \E t \in DOMAIN tasks : SyncMkdir(t)
    \/ \E t \in DOMAIN tasks : SyncWrite(t)
    \/ \E t \in DOMAIN tasks : SyncUtime(t)
    \/ \E t \in DOMAIN tasks : CpAfterSync(t)
    \/ \E t \in DOMAIN tasks : Collect(t)
    \/ KeepSkip
    \/ KeepTransferred
    \/ Sleep
    \/ SleepRestored

SpecRetry == InitKeep /\ [][NextRetry]_vars

\* ------------------------------------------------------------------ discovery
\* websync(BaseUrl, regex_exclude = ex, regex_include = inc).ls(recursive = arg)
\* against a site whose base page is any list of at most MaxAnchors anchors.
InitLs ==
    \E root \in { Page(attrs) : attrs \in SeqsUpTo(RootAttrs, MaxAnchors) }
                    \cup { Status(404), Status(500), Failing("connection") },
       ex \in Excludes, inc \in Includes, arg \in BOOLEAN :
        /\ kwargs = Kwargs(BaseUrl, DefaultLocation, ex, inc, TRUE, FALSE, TRUE)
        /\ remote = ListingSite(root)
        /\ stack = << LsCall(Websync(kwargs), arg, None) >>
        /\ lsState = "running"
        /\ fetched = <<>>
        /\ fs = EmptyFs
        /\ fsStart = EmptyFs
        /\ now = 0
        /\ tasks = <<>>
        /\ pass = NoPass
        /\ cli = NoCli

NextLs == LsGet \/ FindDownloadLinks \/ FeedDone \/ LsReturn \/ LsDone

SpecLs == InitLs /\ [][NextLs]_vars

\* ------------------------------------------------------------------ listings that refer back
\* The anchors of a listing that may lead back: a file, the subdirectory, the
\* parent directory, the directory itself and an index page.
MaxRefs == 2

IndexName == <<"p", ".", "h", "t", "m", "l">>

LoopAttrs ==
    { Href(<<"f", "1">>), Href(<<"s", "/">>), Href(<<".", ".", "/">>),
      Href(<<".", "/">>), Href(IndexName) }

\* A site of two directories; the index page of a directory serves the
\* directory's own listing.
LoopSite(rootAttrs, subAttrs) ==
    LET s == UrlJoin(BaseUrl, <<"s", "/">>)
    IN  (BaseUrl :> Page(rootAttrs))
        @@ (UrlJoin(BaseUrl, IndexName) :> Page(rootAttrs))
        @@ (s :> Page(subAttrs))
        @@ (UrlJoin(s, IndexName) :> Page(subAttrs))

LoopExcludes == { None, <<"p">> }

\* websync(BaseUrl, regex_exclude = ex).ls(recursive = arg) against such a
\* site.
InitLoop ==
    \E rootAttrs \in SeqsUpTo(LoopAttrs, MaxRefs), subAttrs \in SeqsUpTo(LoopAttrs, 1),
       ex \in LoopExcludes, arg \in BOOLEAN :
        /\ kwargs = Kwargs(BaseUrl, DefaultLocation, ex, None, TRUE, FALSE, TRUE)
        /\ remote = LoopSite(rootAttrs, subAttrs)
        /\ stack = << LsCall(Websync(kwargs), arg, None) >>
        /\ lsState = "running"
        /\ fetched = <<>>
        /\ fs = EmptyFs
        /\ fsStart = EmptyFs
        /\ now = 0
        /\ tasks = <<>>
        /\ pass = NoPass
        /\ cli = NoCli

\* find_download_links has a turn to take: the page has an attribute left,
\* and it is not a reference whose listing lies deeper than the model goes.
Descends(self, attr) ==
    ~Excluded(self, attr) /\ Considered(attr) /\ IsDirectory(attr) /\ self.recursive

FindDownloadLinksEnabled ==
    /\ lsState = "running"
    /\ Top.pc = "feed"
    /\ Top.pos <= Len(Top.text)
    /\ Descends(Top.self, Top.text[Top.pos]) => Len(stack) < MaxDepth

\* ls() runs in one thread, which goes on as long as it has a step to take:
\* weak fairness of every step of ls.  That of find_download_links is written
\* out, with the condition under which it has a turn to take.
LsRuns ==
    /\ WF_vars(LsGet)
    /\ WF_vars(FeedDone)
    /\ WF_vars(LsReturn)
    /\ WF_vars(LsDone)
    /\ []<>(~FindDownloadLinksEnabled) \/ []<><<FindDownloadLinks>>_vars

SpecLoop == InitLoop /\ [][NextLs]_vars /\ LsRuns

\* ------------------------------------------------------------------ reference
\* The discovery contract, as a walk of a site: the events of the traversal
\* of the listing at url, in order.  An event is the GET of a listing
\* (kind "get") or a leaf link added to the result (kind "link"), with the
\* raw href it comes from.  rules says which rules apply: the exclusion
\* pattern ex and the inclusion pattern inc (None: no filter), whether
\* directory references are followed (rec), and whether hrefs that begin with
\* '/', '?' or 'http' are set aside (prefixes).
RECURSIVE WalkListing(_, _, _, _)
RECURSIVE WalkAttrs(_, _, _, _)

SiteResource(site, url) == IF url \in DOMAIN site THEN site[url] ELSE Status(404)

Answers200(site, url) ==
    SiteResource(site, url).error = "none" /\ SiteResource(site, url).status = 200

HasSkippedPrefix(raw) ==
    \/ StartsWith(raw, <<"/">>)
    \/ StartsWith(raw, <<"?">>)
    \/ StartsWith(raw, <<"h", "t", "t", "p">>)

IsDirectoryRef(raw) == EndsWith(raw, <<"/">>) \/ EndsWith(raw, <<"h", "t", "m", "l">>)

MatchesAt0(pattern, raw) == pattern /= None /\ ReMatch(ReCompile(pattern), raw)

WalkAttr(site, base, attr, rules) ==
    IF MatchesAt0(rules.ex, attr[2]) THEN <<>>
    ELSE IF attr[1] /= "href" THEN <<>>
    ELSE IF rules.prefixes /\ HasSkippedPrefix(attr[2]) THEN <<>>
    ELSE IF IsDirectoryRef(attr[2])
    THEN IF rules.rec
         THEN WalkListing(site, UrlJoin(base, Strip(attr[2])), attr[2],
                          [rules EXCEPT !.rec = TRUE])
         ELSE <<>>
    ELSE IF rules.inc = None \/ MatchesAt0(rules.inc, attr[2])
    THEN << [kind |-> "link", url |-> UrlJoin(base, Strip(attr[2])), raw |-> attr[2]] >>
    ELSE <<>>

WalkAttrs(site, base, attrs, rules) ==
    IF attrs = <<>> THEN <<>>
    ELSE WalkAttr(site, base, Head(attrs), rules) \o WalkAttrs(site, base, Tail(attrs), rules)

WalkListing(site, url, via, rules) ==
    << [kind |-> "get", url |-> url, raw |-> via] >>
    \o ( IF Answers200(site, url)
         THEN WalkAttrs(site, url, SiteResource(site, url).text, rules)
         ELSE <<>> )

Walk(site, rules) == WalkListing(site, BaseUrl, None, rules)

LinkEvents(events) == SelectSeq(events, LAMBDA e : e.kind = "link")

UrlsOf(events) == [i \in 1..Len(events) |-> events[i].url]

LinksOf(events) == UrlsOf(LinkEvents(events))

GetsOf(events) ==
    LET gets == SelectSeq(events, LAMBDA e : e.kind = "get")
    IN  [i \in 1..Len(gets) |-> [url |-> gets[i].url, via |-> gets[i].raw]]

\* The site with some anchors taken out of every page; Gone(url, attr) says
\* which.
Without(site, Gone(_, _)) ==
    [u \in DOMAIN site |->
        [site[u] EXCEPT !.text = SelectSeq(@, LAMBDA attr : ~Gone(u, attr))]]

\* The outermost parser, and what it was configured and called with.
Outer == stack[1].self

LsFinished == lsState = "done"

NoFilters == Outer.exclude_match = None /\ Outer.include_match = None

ConfiguredRules(ex, inc) ==
    [ex |-> ex, inc |-> inc, rec |-> stack[1].arg, prefixes |-> TRUE]

\* The patterns as they were written (the parser holds them compiled).
ExcludeSource == CHOOSE ex \in Excludes :
                    Outer.exclude_match = IF ex = None THEN None ELSE ReCompile(ex)

IncludeSource == CHOOSE inc \in Includes :
                    Outer.include_match = IF inc = None THEN None ELSE ReCompile(inc)

\* ------------------------------------------------------------------ claims
\* C5: ls() with no filters leaves in return_links exactly the absolute URLs
\* of the leaf files reachable from the base page through directory
\* references, in document order, the links of a subdirectory standing where
\* its anchor stood (depth first), none duplicated and none lost.
C5_DepthFirstDocumentOrder ==
    (LsFinished /\ NoFilters /\ stack[1].arg)
        => Outer.return_links
              = LinksOf(Walk(remote, [ex |-> None, inc |-> None, rec |-> TRUE,
                                      prefixes |-> TRUE]))

\* A page that lists f1, s/, g2: the links of s/ stand between f1 and g2.
C5_Witness ==
    /\ LsFinished /\ NoFilters /\ stack[1].arg
    /\ remote[BaseUrl] = Page(<< Href(<<"f", "1">>), Href(<<"s", "/">>), Href(<<"g", "2">>) >>)
    /\ Len(Outer.return_links) = 8
    /\ Outer.return_links[1] = UrlJoin(BaseUrl, <<"f", "1">>)
    /\ Outer.return_links[2] = UrlJoin(BaseUrl, <<"s", "/", "f", "2">>)
    /\ Outer.return_links[8] = UrlJoin(BaseUrl, <<"g", "2">>)

\* C6: with an exclusion pattern, at every depth, an anchor whose raw href
\* matches the pattern at position 0 contributes nothing (a leaf is absent, a
\* directory is never fetched), and every other anchor is treated as if no
\* exclusion were configured: the result and the listings fetched are those
\* of a discovery without exclusion on the site with the matching anchors
\* taken out of every page.
HrefMatchesExclude(u, attr) == attr[1] = "href" /\ MatchesAt0(ExcludeSource, attr[2])

C6_ExcludedAnchorsContributeNothing ==
    (LsFinished /\ Outer.exclude_match /= None)
        => LET events == Walk(Without(remote, HrefMatchesExclude),
                              ConfiguredRules(None, IncludeSource))
           IN  /\ Outer.return_links = LinksOf(events)
               /\ fetched = GetsOf(events)
               /\ \A i \in 1..Len(fetched) :
                     ~MatchesAt0(ExcludeSource, fetched[i].via)

\* The pattern t is inherited by the parser of s/, whose anchor t/ is then
\* not followed, while s/ is.
C6_Witness ==
    /\ LsFinished /\ stack[1].arg
    /\ ExcludeSource = <<"t">>
    /\ \E i \in 1..Len(fetched) : fetched[i].via = <<"s", "/">>
    /\ \E i \in 1..Len(remote[UrlJoin(BaseUrl, <<"s", "/">>)].text) :
          remote[UrlJoin(BaseUrl, <<"s", "/">>)].text[i] = Href(<<"t", "/">>)
    /\ \A i \in 1..Len(fetched) : fetched[i].via /= <<"t", "/">>
    /\ Len(Outer.return_links) >= 3

\* C7: with an inclusion pattern, the result holds exactly the leaf links, at
\* any depth, whose raw href matches the pattern; the directory references
\* are followed as they are without an inclusion pattern.
C7_IncludeFiltersLeavesOnly ==
    (LsFinished /\ Outer.include_match /= None)
        => LET events == Walk(remote, ConfiguredRules(ExcludeSource, None))
           IN  /\ fetched = GetsOf(events)
               /\ Outer.return_links
                     = UrlsOf(SelectSeq(LinkEvents(events),
                                        LAMBDA e : MatchesAt0(IncludeSource, e.raw)))

\* The pattern .*1 keeps s/g1 and s/t/f1, two and three listings down, and
\* drops s/f2; s/ and t/ do not match it and are followed.
C7_Witness ==
    /\ LsFinished /\ stack[1].arg
    /\ IncludeSource = <<".", "*", "1">>
    /\ Outer.exclude_match = None
    /\ \E i \in 1..Len(fetched) : fetched[i].via = <<"t", "/">>
    /\ \E i \in 1..Len(Outer.return_links) :
          Outer.return_links[i] = UrlJoin(BaseUrl, <<"s", "/", "g", "1">>)
    /\ \E i \in 1..Len(Outer.return_links) :
          Outer.return_links[i] = UrlJoin(BaseUrl, <<"s", "/", "t", "/", "f", "1">>)
    /\ \A i \in 1..Len(Outer.return_links) :
          Outer.return_links[i] /= UrlJoin(BaseUrl, <<"s", "/", "f", "2">>)

\* C8: an href that begins with '/', with '?' or with http is neither
\* followed nor returned: the result and the listings fetched are those of a
\* discovery, with no rule about such hrefs, on the site with these anchors
\* taken out of every page.
HrefHasSkippedPrefix(u, attr) == attr[1] = "href" /\ HasSkippedPrefix(attr[2])

C8_SkippedPrefixes ==
    LsFinished
        => LET events == Walk(Without(remote, HrefHasSkippedPrefix),
                              [ConfiguredRules(ExcludeSource, IncludeSource)
                                  EXCEPT !.prefixes = FALSE])
           IN  /\ Outer.return_links = LinksOf(events)
               /\ fetched = GetsOf(events)
               /\ \A i \in 1..Len(fetched) : ~HasSkippedPrefix(fetched[i].via)

\* The page of s/, which holds ?c, /x and http://z/y, has been gone through.
C8_Witness ==
    /\ LsFinished /\ NoFilters
    /\ \E i \in 1..Len(fetched) : fetched[i].via = <<"s", "/">>
    /\ \E i \in 1..Len(Outer.return_links) :
          Outer.return_links[i] = UrlJoin(BaseUrl, <<"s", "/", "g", "3">>)

\* C9: a listing whose GET answers a status other than 200, or fails with a
\* connection error or a timeout, contributes no link and raises nothing;
\* the links of the anchors before and after it are discovered, in order:
\* the result is that of the site without the anchors of such listings.
ListingFails(u, attr) ==
    /\ attr[1] = "href"
    /\ IsDirectoryRef(attr[2])
    /\ ~HasSkippedPrefix(attr[2])
    /\ ~Answers200(remote, UrlJoin(u, Strip(attr[2])))

C9_FailedListingIsSkipped ==
    LsFinished
        => /\ Outer.return_links
                 = IF Answers200(remote, BaseUrl)
                   THEN LinksOf(Walk(Without(remote, ListingFails),
                                     ConfiguredRules(ExcludeSource, IncludeSource)))
                   ELSE <<>>
           /\ \A i \in 1..Len(fetched) :
                 ~Answers200(remote, fetched[i].url)
                    => \A k \in 1..Len(Outer.return_links) :
                          ~StartsWith(Outer.return_links[k], fetched[i].url)

\* f1, then e/ whose listing answers 404, then s/ in which c/ cannot be
\* reached: both were requested, and the links around them are there.
C9_Witness ==
    /\ LsFinished /\ NoFilters /\ stack[1].arg
    /\ remote[BaseUrl] = Page(<< Href(<<"f", "1">>), Href(<<"e", "/">>), Href(<<"s", "/">>) >>)
    /\ \E i \in 1..Len(fetched) : fetched[i].via = <<"e", "/">>
    /\ \E i \in 1..Len(fetched) : fetched[i].via = <<"c", "/">>
    /\ Outer.return_links[1] = UrlJoin(BaseUrl, <<"f", "1">>)
    /\ Outer.return_links[2] = UrlJoin(BaseUrl, <<"s", "/", "f", "2">>)
    /\ Outer.return_links[Len(Outer.return_links)] = UrlJoin(BaseUrl, <<"s", "/", "g", "3">>)


\* ------------------------------------------------------------------ one call: the claims
WasFile(path) == path \in DOMAIN fsStart.files

\* The server answers the link with a file that has a Last-Modified header.
AnswersFile(link) ==
    /\ Resource(link).error = "none"
    /\ Resource(link).status = 200
    /\ Resource(link).last_modified /= NoHeader

RemoteIsNewer(task) ==
    ParseDate(Resource(task.link).last_modified) > fsStart.files[task.outpath].mtime

\* C1: cp on a link whose local file exists, update_existing enabled, issues
\* one HEAD, and transfers (one GET, the file rewritten) if and only if the
\* remote Last-Modified time is strictly greater than the file's modification
\* time; otherwise there is no GET and the file's content and modification
\* time stay as they were.
C1_StalenessLaw ==
    \A t \in DOMAIN tasks :
        LET task == tasks[t]
        IN  ( /\ task.op = "cp"
              /\ Finished(task)
              /\ kwargs.update_existing
              /\ WasFile(task.outpath)
              /\ AnswersFile(task.link) )
            => /\ task.heads = 1
               /\ task.gets = 1 <=> RemoteIsNewer(task)
               /\ task.writes = 1 <=> RemoteIsNewer(task)
               /\ ~RemoteIsNewer(task) =>
                     /\ task.gets = 0
                     /\ fs.files[task.outpath] = fsStart.files[task.outpath]

\* C2: cp on a link whose local path is not an existing file issues the GET
\* of the link and no HEAD, whatever update_existing was given.
C2_NewFileIsTransferredWithoutHead ==
    \A t \in DOMAIN tasks :
        LET task == tasks[t]
        IN  (task.op = "cp" /\ task.pc /= "cp" /\ ~WasFile(task.outpath))
            => /\ task.heads = 0
               /\ task.pc /= "existing"
               /\ Finished(task) => task.gets = 1

C2_Witness ==
    \E t \in DOMAIN tasks :
        /\ tasks[t].op = "cp"
        /\ tasks[t].pc = "done"
        /\ ~WasFile(tasks[t].outpath)
        /\ ~kwargs.update_existing
        /\ tasks[t].gets = 1
        /\ tasks[t].heads = 0
        /\ tasks[t].result = Returned(tasks[t].outpath)
        /\ IsFile(tasks[t].outpath)

\* sync_files has returned after a GET that was answered with status 200.
ReturnedAfter200(task) ==
    /\ task.pc = "sync_returned" \/ (task.op = "cp" /\ task.pc = "done")
    /\ task.gets = 1
    /\ task.res.error = "none"
    /\ task.res.status = 200

\* C3: when sync_files returns after a GET answered with 200, the local path
\* is a file, every parent directory exists, the file holds the response
\* body (gzip-compressed when the path's suffix ends with gz), and its
\* modification time is the time parsed from the Last-Modified header.
C3_TransferOn200 ==
    \A t \in DOMAIN tasks :
        LET task == tasks[t]
            path == task.outpath
        IN  ReturnedAfter200(task)
            => /\ IsFile(path)
               /\ \A a \in Ancestors(path) : IsDir(a)
               /\ fs.files[path].content =
                      IF EndsWith(Suffix(path), <<"g", "z">>)
                      THEN Gzip(task.res.content) ELSE task.res.content
               /\ fs.files[path].mtime = ParseDate(task.res.last_modified)

C3_Witness ==
    \E t \in DOMAIN tasks :
        /\ ReturnedAfter200(tasks[t])
        /\ tasks[t].op = "sync_files"
        /\ fsStart = EmptyFs
        /\ Len(tasks[t].outpath) > 2
        /\ EndsWith(Suffix(tasks[t].outpath), <<"g", "z">>)
        /\ fs.files[tasks[t].outpath].mtime = ParseDate(<<MaxDay, 1>>)
        /\ now /= ParseDate(<<MaxDay, 1>>)

\* The GET of sync_files was answered with a status other than 200.
AnsweredNot200(task) ==
    /\ task.gets = 1
    /\ task.res.error = "none"
    /\ task.res.status /= 200

\* C10: when the GET of sync_files is answered with a status other than 200,
\* sync_files raises a RuntimeError that carries the status code, and the
\* local file, its parent directories and its modification time are as they
\* were before the call.
C10_Non200RaisesAndTouchesNothing ==
    \A t \in DOMAIN tasks :
        LET task == tasks[t]
        IN  AnsweredNot200(task)
            => /\ task.op = "sync_files" => task.pc = "sync_raised"
               /\ task.pc = "sync_raised" =>
                     task.exc = Exception("RuntimeError", <<task.res.status>>)
               /\ task.writes = 0
               /\ fs = fsStart

C10_Witness ==
    \E t \in DOMAIN tasks :
        /\ AnsweredNot200(tasks[t])
        /\ tasks[t].op = "sync_files"
        /\ tasks[t].pc = "sync_raised"
        /\ tasks[t].exc = Exception("RuntimeError", <<404>>)
        /\ WasFile(tasks[t].outpath)
        /\ fs = fsStart


\* ------------------------------------------------------------------ two passes: the claims
BothPassesOver == pass.pc = "over" /\ Len(pass.log) = 2

\* The remote tree answers every link of the pass with a file that has a
\* Last-Modified header.
EveryLinkAnswersFile(links) == \A i \in DOMAIN links : AnswersFile(links[i])

\* C4: when scrape is called twice with the same destination against an
\* unchanged remote tree that answers every request, the second call
\* finishes, and it has issued no GET of a file and rewritten no local file.
C4_SecondPassTransfersNothing ==
    ( /\ BothPassesOver
      /\ EveryLinkAnswersFile(pass.log[1].links)
      /\ pass.log[1].exc = NoException )
    => /\ pass.log[2].exc = NoException
       /\ pass.log[2].gets = 0
       /\ pass.log[2].writes = 0


\* ------------------------------------------------------------------ main: the claims
NoRequestMade == fetched = <<>> /\ tasks = <<>>

\* C14: called with neither --url nor --config, main ends with a
\* RuntimeError raised at startup: no site job has been submitted, no marker
\* bound and no request made.
C14_NothingToScrapeIsFatal ==
    (cli.pc \notin {"none", "cli"} /\ cli.args.url = None /\ cli.args.config = None)
    => /\ cli.pc = "raised"
       /\ cli.exc.type = "RuntimeError"
       /\ cli.jobs = <<>>
       /\ cli.marker = None
       /\ NoRequestMade

C14_Witness ==
    /\ cli.pc = "raised"
    /\ cli.args.url = None
    /\ cli.args.config = None
    /\ Bool(cli.args.service)
    /\ cli.jobs = <<>>

\* The sites main is to launch: those of the file of --config, 'service'
\* apart, or the one site made of --url and --output.
SitesToLaunch ==
    IF cli.args.config /= None
    THEN SelectSeq(cli.file, LAMBDA item : item.key /= "service")
    ELSE << Item("scraped_site", [url |-> cli.args.url, download_location |-> cli.args.output]) >>

Launching == cli.pc \in {"as_completed", "returned"} /\ cli.func /= ""

\* C15: once main has launched its jobs there is one job per site of the
\* configuration, in order, each with no positional argument and with the
\* site's block as keyword arguments; no job is made of the 'service' entry.
C15_OneJobPerSite ==
    Launching
    => /\ Len(cli.jobs) = Len(SitesToLaunch)
       /\ \A j \in DOMAIN cli.jobs :
             /\ cli.jobs[j].site = SitesToLaunch[j].key
             /\ cli.jobs[j].site /= "service"
             /\ cli.jobs[j].args = <<>>
             /\ cli.jobs[j].kwargs = SitesToLaunch[j].value

C15_Witness ==
    /\ Launching
    /\ cli.args.config /= None
    /\ HasKey(cli.file, "service")
    /\ Len(cli.jobs) = 2
    /\ cli.jobs[2].kwargs = TestBlock
    /\ cli.func = "scrape"


\* ------------------------------------------------------------------ local paths: the claims
\* The host of the base URL, its dots made underscores.
HostDirectory ==
    LET host == SubSeq(BaseUrl, Len(<<"h", "t", "t", "p", ":", "/", "/">>) + 1, Len(BaseUrl) - 1)
    IN  [i \in DOMAIN host |-> IF host[i] = "." THEN "_" ELSE host[i]]

\* The link without the base URL it starts with.
BelowBase(link) == SubSeq(link, Len(BaseUrl) + 1, Len(link))

\* C16: with no_parents off the local path of a link is download_location,
\* then the host with '_' for every '.', then the segments of the URL's
\* path; with no_parents on it is download_location, then the segments of
\* what is left of the link without the base URL.
C16_LocalPathLayout ==
    \A t \in DOMAIN tasks :
        (tasks[t].op = "cp" /\ tasks[t].pc /= "cp")
        => tasks[t].outpath =
              <<stack[1].self.download_location>>
              \o (IF kwargs.no_parents THEN <<>> ELSE <<HostDirectory>>)
              \o Split(BelowBase(tasks[t].link), "/")

C16_Witness ==
    \E t \in DOMAIN tasks :
        /\ tasks[t].op = "cp"
        /\ kwargs.no_parents
        /\ tasks[t].outpath = <<Dest, <<"u">>, <<"k">>>>
        /\ tasks[t].writes = 1
        /\ IsFile(<<Dest, <<"u">>, <<"k">>>>)


\* ------------------------------------------------------------------ the pool: the claims
\* C11: a call of scrape that is over has run cp once for each element of
\* the discovered list, in the list's order, a link that stands twice in
\* the list having two calls; and no call of cp was unfinished when scrape
\* returned or raised.
C11_OneCallPerLinkAllFinished ==
    /\ \A r \in DOMAIN pass.log :
          /\ pass.log[r].calls = pass.log[r].links
          /\ pass.log[r].pending = {}
    /\ pass.func = "scrape" /\ pass.pc \in {"start", "over"} /\ pass.log /= <<>>
          => /\ Len(tasks) = Len(stack[1].self.return_links)
             /\ \A t \in DOMAIN tasks :
                   /\ tasks[t].link = stack[1].self.return_links[t]
                   /\ Finished(tasks[t])

C11_Witness ==
    \E r \in DOMAIN pass.log :
        /\ Len(pass.log[r].links) = 2
        /\ pass.log[r].links[1] = pass.log[r].links[2]
        /\ pass.log[r].calls = pass.log[r].links
        /\ pass.log[r].gets = 2
        /\ pass.log[r].exc = NoException

\* C17: with recursive set to false in the site's configuration, the
\* discovery of scrape fetches the base listing only, and its result holds
\* only links of that page.
C17_NotRecursiveFetchesBaseOnly ==
    (pass.func = "scrape" /\ ~kwargs.recursive /\ lsState = "done")
    => /\ Len(fetched) = 1
       /\ \A i \in DOMAIN stack[1].self.return_links :
             Len(Split(BelowBase(stack[1].self.return_links[i]), "/")) = 1

\* The calls of the pass whose result, a path, is for the callback.
ForCallback(t) == tasks[t].pc = "done" /\ tasks[t].result.kind /= "None"

WasReported(t) == \E i \in DOMAIN pass.reported : pass.reported[i].call = t

\* C18: an exception of the callback does not leave the pass: what scrape
\* raises was raised by a call of cp; every collected call whose result is
\* a path has been given to the callback, whatever the callback did before;
\* and a pass in which no call of cp raised returns, all calls collected.
C18_CallbackFailureIsCaught ==
    /\ pass.exc /= NoException
          => \E t \in pass.collected : tasks[t].pc = "raised" /\ tasks[t].exc = pass.exc
    /\ pass.callback_func
          => \A t \in pass.collected : ForCallback(t) => WasReported(t)
    /\ ( /\ pass.func = "scrape" /\ pass.pc \in {"start", "over"} /\ pass.log /= <<>>
         /\ \A t \in DOMAIN tasks : tasks[t].pc /= "raised" )
          => pass.exc = NoException /\ pass.collected = DOMAIN tasks

C18_Witness ==
    /\ pass.pc = "start"
    /\ pass.run = 2
    /\ pass.exc = NoException
    /\ Len(pass.reported) = 2
    /\ pass.reported[1].failed
    /\ ~pass.reported[2].failed
    /\ \A t \in DOMAIN tasks : tasks[t].writes = 1

\* C19: the callback is called with the path of a call only if that call
\* wrote the file during this pass.
C19_OnlyWrittenFilesAreReported ==
    \A i \in DOMAIN pass.reported :
        /\ tasks[pass.reported[i].call].writes >= 1
        /\ IsFile(pass.reported[i].path)

\* C20: a call of cp that fails on a response without Last-Modified header
\* does not make scrape fail: the pass returns, with every call collected.
C20_PerFileErrorStaysLocal ==
    \A r \in DOMAIN pass.log :
        pass.log[r].exc.type /= "KeyError"


\* The calls of cp that have begun and are not over.
InProgress == { t \in DOMAIN tasks : tasks[t].pc \notin {"cp", "done", "raised"} }

\* C12: at every moment of a pass at most 10 calls of cp are in progress,
\* however long the discovered list is.
C12_AtMostTenInProgress == Cardinality(InProgress) <= 10

C12_Witness ==
    /\ Cardinality(InProgress) = 10
    /\ Len(tasks) > 10
    /\ \E t \in DOMAIN tasks : tasks[t].pc = "cp"
    /\ \E t \in InProgress : tasks[t].pc = "write"


\* ------------------------------------------------------------------ continuous mode: the claims
\* C13: an iteration of keep_scraping runs the transfer phase if and only
\* if the list it discovered differs, as a sequence, from the list of the
\* iteration before (the empty list at first); when it runs, every link has
\* its call of cp, and when it does not, there is no call of cp, no HEAD and
\* no GET of a file.
C13_TransferIffListChanged ==
    \A r \in DOMAIN pass.log :
        LET it == pass.log[r]
        IN  /\ it.previous = IF r = 1 THEN <<>> ELSE pass.log[r - 1].links
            /\ it.transfer <=> it.links /= it.previous
            /\ it.transfer => it.calls = it.links
            /\ ~it.transfer => it.calls = <<>> /\ it.heads = 0 /\ it.gets = 0

\* A permutation of a list of two links.
Swapped(a, b) == Len(a) = 2 /\ Len(b) = 2 /\ a[1] = b[2] /\ a[2] = b[1] /\ a /= b

C13_Witness ==
    /\ Len(pass.log) = 2
    /\ Swapped(pass.log[1].links, pass.log[2].links)
    /\ pass.log[2].transfer
    /\ pass.log[2].calls = pass.log[2].links


\* ------------------------------------------------------------------ discovery: termination
\* The listings a followed reference of the listing at url leads to, by the
\* rules of find_download_links; a listing that does not answer 200 leads
\* nowhere.
RefersTo(site, url, rules) ==
    IF ~Answers200(site, url) THEN {}
    ELSE { UrlJoin(url, Strip(attr[2])) : attr \in
             { a \in { SiteResource(site, url).text[i] :
                         i \in 1..Len(SiteResource(site, url).text) } :
                 /\ ~MatchesAt0(rules.ex, a[2])
                 /\ a[1] = "href"
                 /\ ~HasSkippedPrefix(a[2])
                 /\ IsDirectoryRef(a[2]) } }

\* The followed references of a site, as pairs <<listing, listing referred to>>.
Refs(site, rules) ==
    UNION { { <<u, v>> : v \in RefersTo(site, u, rules) } : u \in DOMAIN site }

\* The listings reached from those of from through at least one of the
\* references refs, and at most n of them.
RECURSIVE ReachedFrom(_, _, _)
ReachedFrom(refs, from, n) ==
    IF n = 0 THEN {}
    ELSE LET step == { r[2] : r \in { q \in refs : q[1] \in from } }
         IN  step \cup ReachedFrom(refs, step, n - 1)

\* A followed reference of a listing the discovery comes to leads back to
\* that listing or to one it was reached through.  Only a recursive call
\* follows a reference.
RefersBack(site, rules) ==
    /\ rules.rec
    /\ LET refs == Refs(site, rules)
           n    == Cardinality(refs)
       IN  \E u \in {BaseUrl} \cup ReachedFrom(refs, {BaseUrl}, n) :
              u \in ReachedFrom(refs, {u}, n)

LoopRules == [ex |-> kwargs.regex_exclude, rec |-> stack[1].arg]

\* C21: ls() returns on every site none of whose followed references leads
\* back to the listing it stands in or to one of the listings that one was
\* reached through, and on no other: where a followed reference leads back,
\* ls() never returns.
C21_TerminatesIffNothingRefersBack ==
    /\ RefersBack(remote, LoopRules) => [](lsState /= "done")
    /\ ~RefersBack(remote, LoopRules) => <>(lsState = "done")

\* A listing is fetched again inside its own ls(): the same URL stands twice
\* among the nested calls, which have reached the depth the model goes to.
C21_Witness ==
    /\ RefersBack(remote, LoopRules)
    /\ Len(stack) = MaxDepth
    /\ \E i, j \in 1..Len(stack) : i < j /\ stack[i].self.base_url = stack[j].self.base_url
    /\ Len(fetched) >= MaxDepth - 1


\* ------------------------------------------------------------------ several processes: the claims
\* The step of main at lines 346-356, where the marker is bound in service
\* mode.
BindStep == cli.pc = "main" /\ cli'.pc /= "main"

InServiceMode == Popped(cli.config, "service", FALSE)

OwnName == MarkerName(Pop(cli.config, "service"))

\* Jobs of this process are queued or running.
SyncLoops == \E j \in DOMAIN cli.jobs : cli.jobs[j].pc \in {"queued", "running"}

\* C22: while this process runs sync loops in service mode it holds the
\* marker of its configuration and no other process holds it; a process whose
\* bind fails returns from main at once, with no job, no request and no
\* exception; a process that is not in service mode binds nothing and goes on
\* to launch its jobs whatever markers are held.
C22_OneServicePerSiteSet ==
    /\ [](SyncLoops /\ cli.func = "keep_scraping" => Holds /\ cli.marker \notin cli.taken)
    /\ [][BindStep /\ InServiceMode /\ OwnName \in cli.taken
            => /\ cli'.pc = "returned"
               /\ cli'.jobs = <<>>
               /\ cli'.marker = None
               /\ cli'.exc = NoException
               /\ NoRequestMade']_vars
    /\ [][BindStep /\ ~InServiceMode
            => cli'.pc = "submit" /\ cli'.marker = None /\ cli'.func = "scrape"]_vars

\* In service mode main has returned with no job, the marker of its
\* configuration being held by another process, while a process of the same
\* sites in another order runs.
C22_Witness ==
    /\ cli.pc = "returned"
    /\ cli.func = ""
    /\ cli.jobs = <<>>
    /\ Bool(cli.args.service)
    /\ cli.config = << Item("test", TestBlock), Item("other", OtherBlock) >>
    /\ cli.taken = { <<"test", "other">>, <<"other", "test">> }


\* ------------------------------------------------------------------ many sites: the claims
\* Every job of main has been taken by a worker.
EverySiteStarted ==
    /\ cli.pc \in {"as_completed", "returned"}
    /\ \A j \in DOMAIN cli.jobs : cli.jobs[j].pc /= "queued"

\* C23: once main has its configuration, every site's job is eventually
\* taken by a worker: no job stays queued for ever, however many sites there
\* are, in one pass and in service mode.
C23_EverySiteStarts == (cli.pc = "submit") ~> EverySiteStarted


\* ------------------------------------------------------------------ two links, one path: the claims
\* The first pass is over.
FirstPassOver == pass.func = "scrape" /\ pass.run = 2 /\ pass.pc = "start"

\* Both calls of cp wrote the same local path and returned it.
BothTransferred ==
    /\ Len(tasks) = 2
    /\ tasks[1].outpath = tasks[2].outpath
    /\ \A t \in DOMAIN tasks :
          tasks[t].pc = "done" /\ tasks[t].writes = 1 /\ tasks[t].result.kind = "path"

\* What the transfer of call t alone leaves in its file.
WholeTransfer(t) ==
    [content |-> Written(tasks[t].outpath, tasks[t].res.content),
     mtime   |-> ModifiedTime(tasks[t].res.last_modified)]

\* C24: when both calls of cp of a pass have transferred to the same local
\* path, the file holds, once the pass is over, the body and the
\* modification time of one and the same transfer.
C24_LastWriterWinsAsAWhole ==
    FirstPassOver /\ BothTransferred
    => \E t \in DOMAIN tasks : fs.files[tasks[1].outpath] = WholeTransfer(t)


\* ------------------------------------------------------------------ continuous mode: the server comes back: the claims
\* The server answers the GET of the link with a file.
Served(link) ==
    link \in DOMAIN remote /\ remote[link].error = "none" /\ remote[link].status = 200

\* An iteration after the first has come to its sleep.
LaterIterationOver ==
    pass.func = "keep_scraping" /\ pass.pc = "sleep" /\ pass.run >= 2

====
